---- MODULE Spec2Model ----
(***************************************************************************)
(* A model of datasleuth's profiling engine (package profiler): the CSV    *)
(* scan of ProfileCSV, type inference, numeric statistics, top values and  *)
(* the quality score.                                                      *)
(***************************************************************************)
EXTENDS Integers, Sequences, FiniteSets, TLC

VARIABLES
    pPc,           \* ProfileCSV: "idle" | "start" | "scan" | "done" | "error" | "panic"
    pErr,          \* the error ProfileCSV returns ("" for nil)
    pHeader,       \* the first record the reader yielded
    pRecords,      \* the data records the reader has yielded so far
    pRowCount,     \* rowCount
    pMissingCells, \* missingCells
    pRowHashes,    \* joined row -> occurrences
    pColumnValues, \* column name -> its non-missing values, in file order
    pValueCounts,  \* column name -> (value -> occurrences)
    pProfile,      \* the *DatasetProfile under construction
    pFailed,       \* the rows on which reader.Read() reported an error (none or one)
    pReturn,       \* the *DatasetProfile ProfileCSV returned (nil until it returns)
    dPc,           \* ProfileDataset: "idle" | "start" | "csv" | "done" | "error" | "panic"
    dPath,         \* its filePath
    dFile,         \* what is at that path: "absent" | "unopenable" | "empty" | "readable"
                   \* ("any" when ProfileCSV is run on its own)
    dProfile,      \* the *DatasetProfile it returned (nil until it returns)
    dErr,          \* the error it returned ("" for nil)
    rPc,           \* correlation harness: "idle" | "start" | "done"
    rX,            \* the series x handed to calculatePearsonCorrelation
    rY,            \* the series y
    rCorr,         \* the float64 it returned
    mPc,           \* matrix harness: "idle" | "start" | "done"
    mProfile,      \* the *DatasetProfile handed to CalculateCorrelationMatrix
    mMatrix,       \* the *CorrelationMatrix it returned
    nPc,           \* statistics harness: "idle" | "start" | "done" | "panic"
    nValues,       \* the values handed to calculateNumericStats
    nCol,          \* the *ColumnProfile handed to it
    sPc,           \* scorer harness: "idle" | "start" | "done"
    sProfile,      \* the *DatasetProfile handed to CalculateQualityScore
    sScore,        \* the int CalculateQualityScore returned
    iPc,           \* inference harness: "idle" | "start" | "done"
    iValues,       \* a column's non-missing values, in file order
    iOther,        \* a second column's values
    iType,         \* inferDataType(iValues)
    iOtherType,    \* inferDataType(iOther)
    tPc,           \* top-values harness: "idle" | "start" | "done"
    tTable,        \* the value -> count table handed to getTopValues
    tLimit,        \* its limit
    tTop,          \* the []ValueCount getTopValues returned
    pHandle,       \* the *os.File of ProfileCSV: "unopened" | "open" | "closed"
    pOpens,        \* how many times os.Open handed out a handle
    qPc,           \* detectQualityIssues harness: "idle" | "start" | "done"
    qCol,          \* the column handed to detectQualityIssues, then as it left it
    qRowCount,     \* its rowCount
    vPc,           \* reconstructNumericValues harness: "idle" | "start" | "done"
    vCol,          \* the column handed to reconstructNumericValues
    vSource,       \* the non-missing values the column was profiled from
    vRebuilt       \* the []float64 reconstructNumericValues returned

csvVars == <<pPc, pErr, pHeader, pRecords, pRowCount, pMissingCells, pRowHashes,
             pColumnValues, pValueCounts, pProfile, pFailed, pReturn, pHandle, pOpens>>
datasetVars == <<dPc, dPath, dFile, dProfile, dErr>>
pearsonVars == <<rPc, rX, rY, rCorr>>
matrixVars == <<mPc, mProfile, mMatrix>>
detectVars == <<qPc, qCol, qRowCount>>
reconVars == <<vPc, vCol, vSource, vRebuilt>>
statsVars == <<nPc, nValues, nCol>>
scoreVars == <<sPc, sProfile, sScore>>
inferVars == <<iPc, iValues, iOther, iType, iOtherType>>
topVars == <<tPc, tTable, tLimit, tTop>>
vars == <<pPc, pErr, pHeader, pRecords, pRowCount, pMissingCells, pRowHashes,
          pColumnValues, pValueCounts, pProfile, pFailed, pReturn, pHandle, pOpens,
          qPc, qCol, qRowCount, vPc, vCol, vSource, vRebuilt,
          dPc, dPath, dFile, dProfile, dErr, rPc, rX, rY, rCorr, mPc, mProfile, mMatrix,
          nPc, nValues, nCol,
          sPc, sProfile, sScore, iPc, iValues, iOther, iType, iOtherType,
          tPc, tTable, tLimit, tTop>>

\* a nil pointer or interface: the Min and Max of a column without numeric
\* statistics, a profile or a matrix that was not returned
NilValue == [nil |-> TRUE]

CsvIdle ==
    /\ pPc = "idle" /\ pErr = "" /\ pHeader = <<>> /\ pRecords = <<>>
    /\ pRowCount = 0 /\ pMissingCells = 0 /\ pRowHashes = <<>>
    /\ pColumnValues = <<>> /\ pValueCounts = <<>> /\ pProfile = <<>>
    /\ pFailed = <<>> /\ pReturn = NilValue
    /\ pHandle = "unopened" /\ pOpens = 0
DatasetIdle ==
    dPc = "idle" /\ dPath = <<>> /\ dFile = "any" /\ dProfile = NilValue /\ dErr = ""
PearsonIdle == rPc = "idle" /\ rX = <<>> /\ rY = <<>> /\ rCorr = <<>>
MatrixIdle == mPc = "idle" /\ mProfile = <<>> /\ mMatrix = NilValue
DetectIdle == qPc = "idle" /\ qCol = <<>> /\ qRowCount = 0
ReconIdle == vPc = "idle" /\ vCol = <<>> /\ vSource = <<>> /\ vRebuilt = <<>>
StatsIdle == nPc = "idle" /\ nValues = <<>> /\ nCol = <<>>
ScoreIdle == sPc = "idle" /\ sProfile = <<>> /\ sScore = 0
InferIdle == iPc = "idle" /\ iValues = <<>> /\ iOther = <<>> /\ iType = "" /\ iOtherType = ""
TopIdle == tPc = "idle" /\ tTable = <<>> /\ tLimit = 0 /\ tTop = <<>>

Min(a, b) == IF a < b THEN a ELSE b
Max(a, b) == IF a > b THEN a ELSE b

(***************************************************************************)
(* float64 arithmetic.  A non-negative finite float64 is a record          *)
(* [sig, exp]: sig holds the 53-bit significand as base-2^9 digits, most   *)
(* significant first (six digits, the first of 8 bits), and the value is   *)
(* Nat(sig) * 2^exp.  Zero has sig = <<>>.  Every operation rounds to      *)
(* nearest, ties to even, as IEEE 754 binary64 does.                       *)
(***************************************************************************)
Float64Bits == 53
DigitBase == 2^9
DigitBits == CHOOSE k \in 1..30 : 2^k = DigitBase

FZero == [sig |-> <<>>, exp |-> 0]

RECURSIVE DigitsOfNat(_)
DigitsOfNat(n) ==
    IF n = 0 THEN <<>> ELSE DigitsOfNat(n \div DigitBase) \o <<n % DigitBase>>

RECURSIVE NatOfDigits(_)
NatOfDigits(d) ==
    IF d = <<>> THEN 0
    ELSE DigitBase * NatOfDigits(SubSeq(d, 1, Len(d) - 1)) + d[Len(d)]

\* the number of bits of a digit (0 for 0)
BitLen(x) == IF x = 0 THEN 0 ELSE CHOOSE k \in 1..DigitBits : 2^(k - 1) <= x /\ x < 2^k

\* the number of bits of a digit sequence with a nonzero first digit
BitsIn(d) == IF d = <<>> THEN 0 ELSE DigitBits * (Len(d) - 1) + BitLen(d[1])

StripZero(d) == IF d # <<>> /\ d[1] = 0 THEN Tail(d) ELSE d

RECURSIVE IncDigits(_)
IncDigits(d) ==
    IF d = <<>> THEN <<1>>
    ELSE IF d[Len(d)] < DigitBase - 1
         THEN SubSeq(d, 1, Len(d) - 1) \o <<d[Len(d)] + 1>>
         ELSE IncDigits(SubSeq(d, 1, Len(d) - 1)) \o <<0>>

RECURSIVE MulCarry(_, _, _)
\* the digits of Nat(d) * c + carry, for c < 2^22
MulCarry(d, c, carry) ==
    IF d = <<>> THEN DigitsOfNat(carry)
    ELSE LET x == d[Len(d)] * c + carry
         IN  MulCarry(SubSeq(d, 1, Len(d) - 1), c, x \div DigitBase) \o <<x % DigitBase>>

\* Nat(d) * 2^s
ShiftLeft(d, s) ==
    MulCarry(d, 2^(s % DigitBits), 0) \o [i \in 1..(s \div DigitBits) |-> 0]

\* Nat(d) \div 2^drop for drop >= 1, with the last bit dropped (guard) and
\* whether any bit below it is set (sticky)
ShiftRight(d, drop) ==
    LET n    == Len(d)
        k    == drop \div DigitBits
        p    == drop % DigitBits
        gk   == (drop - 1) \div DigitBits
        gp   == (drop - 1) % DigitBits
        low(j) == IF j < n THEN d[n - j] ELSE 0
        rest == SubSeq(d, 1, n - k)
        q    == [i \in 1..Len(rest) |->
                    (rest[i] \div 2^p)
                    + (IF i > 1 THEN (rest[i - 1] % 2^p) * 2^(DigitBits - p) ELSE 0)]
    IN  [q      |-> StripZero(q),
         guard  |-> (low(gk) \div 2^gp) % 2,
         sticky |-> \/ low(gk) % 2^gp # 0
                    \/ \E j \in 0..(gk - 1) : low(j) # 0]

\* digits (nonzero first digit) with a sticky flag for a nonzero remainder below
\* the last bit, scaled by 2^exp, rounded to a float64
RoundSig(d, sticky, exp) ==
    LET L == BitsIn(d) IN
    IF L <= Float64Bits
    THEN [sig |-> StripZero(ShiftLeft(d, Float64Bits - L)), exp |-> exp - (Float64Bits - L)]
    ELSE LET drop == L - Float64Bits
             sh   == ShiftRight(d, drop)
             st   == sticky \/ sh.sticky
             up   == sh.guard = 1 /\ (st \/ sh.q[Len(sh.q)] % 2 = 1)
             inc  == IncDigits(sh.q)
         IN  IF ~up THEN [sig |-> sh.q, exp |-> exp + drop]
             ELSE IF BitsIn(inc) > Float64Bits
                  THEN [sig |-> ShiftRight(inc, 1).q, exp |-> exp + drop + 1]
                  ELSE [sig |-> inc, exp |-> exp + drop]

\* float64(n) for an int n >= 0
FFromInt(n) == IF n = 0 THEN FZero ELSE RoundSig(DigitsOfNat(n), FALSE, 0)

\* f * float64(c) for an int c, 0 <= c < 2^22
FMulInt(f, c) ==
    IF f.sig = <<>> \/ c = 0 THEN FZero
    ELSE RoundSig(StripZero(MulCarry(f.sig, c, 0)), FALSE, f.exp)

RECURSIVE DivStep(_, _, _, _)
\* long division, a digit a step: d holds the quotient's significant digits so
\* far, nfrac of them after the point, r is the remainder (b < 2^22)
DivStep(r, b, d, nfrac) ==
    IF BitsIn(d) > Float64Bits
    THEN RoundSig(d, r # 0, 0 - DigitBits * nfrac)
    ELSE LET x == (r * DigitBase) \div b
         IN  DivStep((r * DigitBase) % b, b,
                     IF d = <<>> /\ x = 0 THEN <<>> ELSE Append(d, x),
                     nfrac + 1)

\* float64(a) / float64(b) for ints a >= 0, 0 < b < 2^22
FDivInt(a, b) ==
    IF a = 0 THEN FZero ELSE DivStep(a % b, b, DigitsOfNat(a \div b), 0)

\* int(f) for f >= 0 below 2^31: truncation toward zero
FTrunc(f) ==
    IF f.sig = <<>> THEN 0
    ELSE IF f.exp >= 0 THEN NatOfDigits(ShiftLeft(f.sig, f.exp))
    ELSE NatOfDigits(ShiftRight(f.sig, 0 - f.exp).q)

\* whether f has a nonzero fractional part
FHasFrac(f) ==
    /\ f.sig # <<>>
    /\ f.exp < 0
    /\ LET sh == ShiftRight(f.sig, 0 - f.exp) IN sh.guard = 1 \/ sh.sticky

\* f > float64(k), k an int >= 0
FGtInt(f, k) == FTrunc(f) > k \/ (FTrunc(f) = k /\ FHasFrac(f))

\* float64(k) >= f
FIntGe(k, f) == ~FGtInt(f, k)

RECURSIVE StripZeros(_)
StripZeros(d) == IF d # <<>> /\ d[1] = 0 THEN StripZeros(Tail(d)) ELSE d

RECURSIVE AddCarry(_, _, _)
\* the digits of Nat(a) + Nat(b) + carry
AddCarry(a, b, carry) ==
    IF a = <<>> /\ b = <<>> THEN DigitsOfNat(carry)
    ELSE LET x == (IF a = <<>> THEN 0 ELSE a[Len(a)])
                  + (IF b = <<>> THEN 0 ELSE b[Len(b)]) + carry
         IN  AddCarry(SubSeq(a, 1, Len(a) - 1), SubSeq(b, 1, Len(b) - 1), x \div DigitBase)
                \o <<x % DigitBase>>

RECURSIVE SubBorrow(_, _, _)
\* the digits of Nat(a) - Nat(b) - borrow, for Nat(a) >= Nat(b) + borrow
SubBorrow(a, b, borrow) ==
    IF a = <<>> THEN <<>>
    ELSE LET x == a[Len(a)] - (IF b = <<>> THEN 0 ELSE b[Len(b)]) - borrow
         IN  SubBorrow(SubSeq(a, 1, Len(a) - 1), SubSeq(b, 1, Len(b) - 1),
                       IF x < 0 THEN 1 ELSE 0)
                \o <<(x + DigitBase) % DigitBase>>

\* Nat(a) <= Nat(b), for digit sequences without leading zeros
LeqDigits(a, b) ==
    \/ Len(a) < Len(b)
    \/ /\ Len(a) = Len(b)
       /\ \/ a = b
          \/ \E i \in 1..Len(a) : a[i] < b[i] /\ \A j \in 1..(i - 1) : a[j] = b[j]

\* Nat(d) * x for a digit x
MulDigit(d, x) == IF x = 0 THEN <<>> ELSE StripZeros(MulCarry(d, x, 0))

\* the value of the first k digits of d read as a number of n digits
TopDigits(d, n, k) ==
    NatOfDigits([i \in 1..k |-> IF i + Len(d) - n >= 1 THEN d[i + Len(d) - n] ELSE 0])

\* the digit x with x * Nat(s) <= Nat(r) < (x + 1) * Nat(s), for Nat(r) <
\* DigitBase * Nat(s): estimated from the leading digits, then corrected
QuoDigit(r, s) ==
    LET est == Min(DigitBase - 1, TopDigits(r, Len(s) + 1, 3) \div TopDigits(s, Len(s), 2))
    IN  CHOOSE x \in Max(0, est - 2)..est :
            /\ LeqDigits(MulDigit(s, x), r)
            /\ ~LeqDigits(MulDigit(s, x + 1), r)

RECURSIVE DivBigStep(_, _, _, _)
\* long division by the significand s (six digits), a digit a step
DivBigStep(r, s, d, nfrac) ==
    IF BitsIn(d) > Float64Bits
    THEN RoundSig(d, r # <<>>, 0 - DigitBits * nfrac)
    ELSE LET shifted == IF r = <<>> THEN <<>> ELSE Append(r, 0)
             x       == QuoDigit(shifted, s)
         IN  DivBigStep(StripZeros(SubBorrow(shifted, MulDigit(s, x), 0)), s,
                        IF d = <<>> /\ x = 0 THEN <<>> ELSE Append(d, x),
                        nfrac + 1)

\* float64(k) / f for an int k >= 0 and a float64 f > 0
FIntDiv(k, f) ==
    IF k = 0 THEN FZero
    ELSE LET q == DivBigStep(DigitsOfNat(k), f.sig, <<>>, 0)
         IN  [sig |-> q.sig, exp |-> q.exp - f.exp]

\* float64(k) + f for an int k >= 0 and a float64 f >= 0
FAddInt(k, f) ==
    IF f.sig = <<>> THEN FFromInt(k)
    ELSE IF k = 0 THEN f
    ELSE IF f.exp >= 0
         THEN RoundSig(StripZeros(AddCarry(DigitsOfNat(k), ShiftLeft(f.sig, f.exp), 0)),
                       FALSE, 0)
         ELSE RoundSig(StripZeros(AddCarry(ShiftLeft(DigitsOfNat(k), 0 - f.exp), f.sig, 0)),
                       FALSE, f.exp)

(***************************************************************************)
(* Signed float64 values, for the correlation code.  A number is a record  *)
(* [neg, sig, exp] of value (-1)^neg * Nat(sig) * 2^exp, zero having       *)
(* sig = <<>>; it is a float64 when sig is a 53-bit significand.  The sum  *)
(* and the product below are exact, and FRound rounds them as one float64  *)
(* operation does; NaN is the result of the square root of a negative      *)
(* number and of every operation on it.  The numbers of this model are far *)
(* from the float64 range limits and from -0.                              *)
(***************************************************************************)
NaN == [nan |-> TRUE]
IsNaN(v) == DOMAIN v = {"nan"}

ExZero == [neg |-> FALSE, sig |-> <<>>, exp |-> 0]

\* a non-negative float64 [sig, exp] as a signed one
FSigned(f) == IF f.sig = <<>> THEN ExZero ELSE [neg |-> FALSE, sig |-> f.sig, exp |-> f.exp]

RECURSIVE MulDigits(_, _)
\* the digits of Nat(a) * Nat(b), with leading zeros
MulDigits(a, b) ==
    IF b = <<>> THEN <<>>
    ELSE AddCarry(Append(MulDigits(a, SubSeq(b, 1, Len(b) - 1)), 0),
                  MulDigit(a, b[Len(b)]), 0)

\* a * b, exactly
ExMul(a, b) ==
    IF a.sig = <<>> \/ b.sig = <<>> THEN ExZero
    ELSE [neg |-> a.neg # b.neg, sig |-> StripZeros(MulDigits(a.sig, b.sig)),
          exp |-> a.exp + b.exp]

ExNeg(a) == IF a.sig = <<>> THEN a ELSE [a EXCEPT !.neg = ~a.neg]

\* the sum of the aligned magnitudes x and y, of signs xneg and yneg, scaled
\* by 2^e
ExAddAligned(x, xneg, y, yneg, e) ==
    IF xneg = yneg THEN [neg |-> xneg, sig |-> StripZeros(AddCarry(x, y, 0)), exp |-> e]
    ELSE IF x = y THEN ExZero
    ELSE IF LeqDigits(y, x) THEN [neg |-> xneg, sig |-> StripZeros(SubBorrow(x, y, 0)), exp |-> e]
    ELSE [neg |-> yneg, sig |-> StripZeros(SubBorrow(y, x, 0)), exp |-> e]

\* a + b, exactly
ExAdd(a, b) ==
    IF a.sig = <<>> THEN b
    ELSE IF b.sig = <<>> THEN a
    ELSE ExAddAligned(ShiftLeft(a.sig, a.exp - Min(a.exp, b.exp)), a.neg,
                      ShiftLeft(b.sig, b.exp - Min(a.exp, b.exp)), b.neg,
                      Min(a.exp, b.exp))

\* the float64 nearest to an exact number
FRound(v) ==
    IF v.sig = <<>> THEN ExZero
    ELSE LET r == RoundSig(v.sig, FALSE, v.exp)
         IN  [neg |-> v.neg, sig |-> r.sig, exp |-> r.exp]

\* a * b, a + b, a - b on float64 values
FMul(a, b) == IF IsNaN(a) \/ IsNaN(b) THEN NaN ELSE FRound(ExMul(a, b))
FAdd(a, b) == IF IsNaN(a) \/ IsNaN(b) THEN NaN ELSE FRound(ExAdd(a, b))
FSub(a, b) == IF IsNaN(a) \/ IsNaN(b) THEN NaN ELSE FRound(ExAdd(a, ExNeg(b)))

\* a*b + c and a*b - c and c - a*b in one rounding (a fused multiply-add)
FMulAdd(a, b, c) == FRound(ExAdd(ExMul(a, b), c))
FMulSub(a, b, c) == FRound(ExAdd(ExMul(a, b), ExNeg(c)))
FSubMul(c, a, b) == FRound(ExAdd(c, ExNeg(ExMul(a, b))))

\* the quotient of two significands, the divisor doubled to exceed the dividend
DivSig(a, b, neg) ==
    LET q == DivBigStep(a.sig, StripZeros(MulCarry(b.sig, 2, 0)), <<>>, 0)
    IN  [neg |-> neg, sig |-> q.sig, exp |-> q.exp + a.exp - b.exp + 1]

\* a / b on float64 values, b nonzero
FDiv(a, b) ==
    IF IsNaN(a) \/ IsNaN(b) THEN NaN
    ELSE IF a.sig = <<>> THEN ExZero
    ELSE DivSig(a, b, a.neg # b.neg)

\* the largest x <= DigitBase - 1 with x * x <= n, for n < DigitBase^2
RootOfPair(n) == CHOOSE x \in 0..(DigitBase - 1) : x * x <= n /\ n < (x + 1) * (x + 1)

\* the next digit x of a square root: the largest one with
\* (twice * DigitBase + x) * x <= r, estimated from the leading digits
RootDigit(r, twice) ==
    LET est == Min(DigitBase - 1,
                   TopDigits(r, Len(twice) + 2, 3) \div TopDigits(twice, Len(twice), 2))
    IN  CHOOSE x \in Max(0, est - 3)..est :
            /\ LeqDigits(MulDigit(Append(twice, x), x), r)
            /\ x < DigitBase - 1 => ~LeqDigits(MulDigit(Append(twice, x + 1), x + 1), r)

RECURSIVE RootStep(_, _, _, _)
\* the square root of the digits n, two digits a step from position i: root
\* holds the digits found and r the remainder
RootStep(n, i, root, r) ==
    IF i > Len(n) THEN [root |-> root, exact |-> r = <<>>]
    ELSE LET shifted == StripZeros(r \o <<n[i], n[i + 1]>>)
             x       == IF root = <<>> THEN RootOfPair(NatOfDigits(shifted))
                        ELSE RootDigit(shifted, StripZeros(MulCarry(root, 2, 0)))
         IN  RootStep(n, i + 2, Append(root, x),
                      StripZeros(SubBorrow(shifted,
                          MulDigit(Append(StripZeros(MulCarry(root, 2, 0)), x), x), 0)))

\* the square root of sig * 2^exp with exp even and sig of twelve digits
RootOf(sig, exp) ==
    LET q == RootStep(sig, 1, <<>>, <<>>)
        r == RoundSig(q.root, ~q.exact, exp \div 2)
    IN  [neg |-> FALSE, sig |-> r.sig, exp |-> r.exp]

\* math.Sqrt(a): the significand is scaled by 2^54 or 2^55 to twelve digits
\* and an even exponent
FSqrt(a) ==
    IF IsNaN(a) THEN NaN
    ELSE IF a.sig = <<>> THEN ExZero
    ELSE IF a.neg THEN NaN
    ELSE LET t == IF (a.exp - (Float64Bits + 1)) % 2 = 0 THEN Float64Bits + 1
                  ELSE Float64Bits + 2
             d == ShiftLeft(a.sig, t)
         IN  RootOf([i \in 1..(2 * Len(a.sig) - Len(d)) |-> 0] \o d, a.exp - t)

\* math.Abs(a)
FAbs(a) == IF IsNaN(a) \/ a.sig = <<>> THEN a ELSE [a EXCEPT !.neg = FALSE]

\* a > b on float64 values: false when either is NaN
FGt(a, b) ==
    /\ ~IsNaN(a) /\ ~IsNaN(b)
    /\ LET d == ExAdd(a, ExNeg(b)) IN d.sig # <<>> /\ ~d.neg

\* a == b on float64 values: false when either is NaN
FEq(a, b) == ~IsNaN(a) /\ ~IsNaN(b) /\ a = b

(***************************************************************************)
(* CalculateQualityScore                                                   *)
(***************************************************************************)
Severities == 1..3

\* a QualityIssue; its Description is text for the report only
Issue(type, severity) == [Type |-> type, Severity |-> severity]

RECURSIVE SumSeverity(_)
SumSeverity(issues) ==
    IF issues = <<>> THEN 0
    ELSE issues[1].Severity + SumSeverity(Tail(issues))

RECURSIVE SumColumnSeverity(_, _)
\* for _, col := range profile.Columns { for _, issue := range col.QualityIssues
SumColumnSeverity(columns, names) ==
    IF names = {} THEN 0
    ELSE LET n == CHOOSE x \in names : TRUE
         IN  SumSeverity(columns[n].QualityIssues)
               + SumColumnSeverity(columns, names \ {n})

MissingPenalty(profile) ==
    LET totalCells == profile.RowCount * profile.ColumnCount IN
    IF totalCells > 0
    THEN LET missingPercentage == FMulInt(FDivInt(profile.MissingCells, totalCells), 100)
         IN  IF FGtInt(missingPercentage, 0)
             THEN Min(30, FTrunc(FMulInt(missingPercentage, 3)))
             ELSE 0
    ELSE 0

\* the issue deduction without its cap at 40 points
UncappedIssuePenalty(profile) ==
    5 * SumSeverity(profile.QualityIssues)
      + SumColumnSeverity(profile.Columns, DOMAIN profile.Columns)

IssuePenalty(profile) ==
    Min(40, 5 * SumSeverity(profile.QualityIssues)
              + SumColumnSeverity(profile.Columns, DOMAIN profile.Columns))

DuplicatePenalty(profile) ==
    IF profile.RowCount > 0
    THEN LET duplicatePercentage == FMulInt(FDivInt(profile.DuplicateRows, profile.RowCount), 100)
         IN  IF FGtInt(duplicatePercentage, 0)
             THEN Min(15, FTrunc(FMulInt(duplicatePercentage, 2)))
             ELSE 0
    ELSE 0

\* CalculateQualityScore without its early return for an empty dataset
ScoreWithoutEmptyCheck(profile) ==
    Max(0, 100 - MissingPenalty(profile) - IssuePenalty(profile)
               - DuplicatePenalty(profile))

CalculateQualityScore(profile) ==
    IF profile.RowCount = 0 \/ profile.ColumnCount = 0 THEN 0
    ELSE Max(0, 100 - MissingPenalty(profile) - IssuePenalty(profile)
                    - DuplicatePenalty(profile))

(***************************************************************************)
(* Strings are sequences of one-character strings, so that parsing and     *)
(* joining work on characters.                                             *)
(***************************************************************************)
Digits == <<"0", "1", "2", "3", "4", "5", "6", "7", "8", "9">>

IsDigit(c) == \E i \in 1..Len(Digits) : Digits[i] = c

DigitVal(c) == (CHOOSE i \in 1..Len(Digits) : Digits[i] = c) - 1

AllDigits(s) == \A i \in 1..Len(s) : IsDigit(s[i])

\* the number a short digit string denotes
Atoi(s) ==
    LET n == Len(s)
        place(i) == 10^(n - i)
        term[i \in 0..n] == IF i = 0 THEN 0 ELSE term[i - 1] + DigitVal(s[i]) * place(i)
    IN  term[n]

Unsigned(s) == IF s # <<>> /\ s[1] \in {"+", "-"} THEN Tail(s) ELSE s

\* strconv.ParseInt(s, 10, 64) returns no error.  Up to 18 digits always fit
\* an int64; longer digit strings are taken to overflow.
ParsesAsInt(s) ==
    LET body == Unsigned(s)
    IN  body # <<>> /\ AllDigits(body) /\ Len(body) <= 18

\* strconv.ParseFloat(s, 64) returns no error, for decimal notation: an
\* optional sign, digits with at most one point and at least one digit, and
\* an optional exponent of one or two digits (so the value is in range).  The
\* hexadecimal, infinity and NaN spellings need the letters x, p, i, n, which
\* the values of this model do not contain.
ParsesAsFloat(s) ==
    LET body == Unsigned(s)
        es   == {i \in 1..Len(body) : body[i] \in {"e", "E"}}
        cut  == IF es = {} THEN Len(body) + 1
                ELSE CHOOSE i \in es : \A j \in es : i <= j
        mant == SubSeq(body, 1, cut - 1)
        expo == Unsigned(SubSeq(body, cut + 1, Len(body)))
    IN  /\ \A i \in 1..Len(mant) : IsDigit(mant[i]) \/ mant[i] = "."
        /\ Cardinality({i \in 1..Len(mant) : mant[i] = "."}) <= 1
        /\ \E i \in 1..Len(mant) : IsDigit(mant[i])
        /\ es # {} => (expo # <<>> /\ AllDigits(expo) /\ Len(expo) <= 2)

IsLeap(y) == y % 4 = 0 /\ (y % 100 # 0 \/ y % 400 = 0)

DaysIn(m, y) ==
    IF m = 2 THEN (IF IsLeap(y) THEN 29 ELSE 28)
    ELSE IF m \in {4, 6, 9, 11} THEN 30 ELSE 31

ValidDate(y, m, d) ==
    /\ AllDigits(y) /\ AllDigits(m) /\ AllDigits(d)
    /\ Atoi(m) \in 1..12
    /\ Atoi(d) >= 1 /\ Atoi(d) <= DaysIn(Atoi(m), Atoi(y))

\* time.Parse("2006-01-02", s) returns no error
ParsesAsISODate(s) ==
    /\ Len(s) = 10
    /\ s[5] = "-" /\ s[8] = "-"
    /\ ValidDate(SubSeq(s, 1, 4), SubSeq(s, 6, 7), SubSeq(s, 9, 10))

\* time.Parse("01/02/2006", s) returns no error
ParsesAsUSDate(s) ==
    /\ Len(s) = 10
    /\ s[3] = "/" /\ s[6] = "/"
    /\ ValidDate(SubSeq(s, 7, 10), SubSeq(s, 1, 2), SubSeq(s, 4, 5))

ValidClock(h, m, sec) ==
    /\ AllDigits(h) /\ AllDigits(m) /\ AllDigits(sec)
    /\ Atoi(h) <= 23 /\ Atoi(m) <= 59 /\ Atoi(sec) <= 59

\* time.Parse(time.RFC3339, s) returns no error, for timestamps without
\* fractional seconds: a date, "T", a clock and "Z" or a numeric zone offset
ParsesAsRFC3339(s) ==
    /\ Len(s) \in {20, 25}
    /\ ParsesAsISODate(SubSeq(s, 1, 10))
    /\ s[11] = "T" /\ s[14] = ":" /\ s[17] = ":"
    /\ ValidClock(SubSeq(s, 12, 13), SubSeq(s, 15, 16), SubSeq(s, 18, 19))
    /\ IF Len(s) = 20 THEN s[20] = "Z"
       ELSE /\ s[20] \in {"+", "-"} /\ s[23] = ":"
            /\ ValidClock(SubSeq(s, 21, 22), SubSeq(s, 24, 25), <<"0">>)

\* the tally a sampled value goes to: the first parse that succeeds
Classify(v) ==
    IF ParsesAsInt(v) THEN "int"
    ELSE IF ParsesAsFloat(v) THEN "float"
    ELSE IF ParsesAsRFC3339(v) \/ ParsesAsISODate(v) \/ ParsesAsUSDate(v) THEN "date"
    ELSE "none"

(***************************************************************************)
(* inferDataType                                                           *)
(***************************************************************************)
SampleLimit == 100

\* the float64 constant 0.9: the float64 nearest to 9/10
F09 == FDivInt(9, 10)

\* the whole column taken as the sample
WholeColumnSample(values) == Len(values)

\* sampleSize := int(math.Min(float64(len(values)), 100))
SampleSize(values) == Min(Len(values), SampleLimit)

\* float64(count) > float64(sampleSize)*0.9: the threshold made strict
MoreThanNineTenths(count, sampleSize) ==
    LET f == FMulInt(F09, sampleSize)
    IN  FIntGe(count, f) /\ ~(FTrunc(f) = count /\ ~FHasFrac(f))

\* float64(count) >= float64(sampleSize)*0.9
AtLeastNineTenths(count, sampleSize) == FIntGe(count, FMulInt(F09, sampleSize))

inferDataType(values) ==
    IF Len(values) = 0 THEN "unknown"
    ELSE LET sampleSize == SampleSize(values)
             class      == [i \in 1..sampleSize |-> Classify(values[i])]
             intCount   == Cardinality({i \in 1..sampleSize : class[i] = "int"})
             floatCount == Cardinality({i \in 1..sampleSize : class[i] = "float"})
             dateCount  == Cardinality({i \in 1..sampleSize : class[i] = "date"})
         IN  IF AtLeastNineTenths(intCount, sampleSize) THEN "integer"
             ELSE IF AtLeastNineTenths(intCount + floatCount, sampleSize) THEN "float"
             ELSE IF AtLeastNineTenths(dateCount, sampleSize) THEN "datetime"
             ELSE "string"

(***************************************************************************)
(* getTopValues                                                            *)
(***************************************************************************)
ValueCount(value, count) == [Value |-> value, Count |-> count]

\* the orders in which a range over a map with these keys may yield them
MapOrders(keys) ==
    {o \in [1..Cardinality(keys) -> keys] : \A i, j \in DOMAIN o : o[i] = o[j] => i = j}

\* the inner loop with the comparison reversed: key moves left past larger counts
InsertAscending(sorted, key) ==
    LET stay == {j \in 1..Len(sorted) : ~(sorted[j].Count > key.Count)}
        k    == IF stay = {} THEN 0 ELSE CHOOSE j \in stay : \A x \in stay : x <= j
    IN  SubSeq(sorted, 1, k) \o <<key>> \o SubSeq(sorted, k + 1, Len(sorted))

\* the inner loop of the insertion sort: key moves left past every entry with a
\* smaller count and stops behind the first one, from the right, without
InsertDescending(sorted, key) ==
    LET stay == {j \in 1..Len(sorted) : ~(sorted[j].Count < key.Count)}
        k    == IF stay = {} THEN 0 ELSE CHOOSE j \in stay : \A x \in stay : x <= j
    IN  SubSeq(sorted, 1, k) \o <<key>> \o SubSeq(sorted, k + 1, Len(sorted))

RECURSIVE SortFrom(_, _)
\* for i := 1; i < len(topValues); i++ { ... }, from position i on
SortFrom(topValues, i) ==
    IF i > Len(topValues) THEN topValues
    ELSE SortFrom(InsertDescending(SubSeq(topValues, 1, i - 1), topValues[i])
                    \o SubSeq(topValues, i + 1, Len(topValues)),
                  i + 1)

\* getTopValues(valueCounts, limit), the range over the map yielding its keys
\* in the given order
getTopValues(valueCounts, limit, order) ==
    LET topValues == [i \in 1..Len(order) |-> ValueCount(order[i], valueCounts[order[i]])]
        sorted    == SortFrom(topValues, 2)
    IN  IF Len(sorted) > limit THEN SubSeq(sorted, 1, limit) ELSE sorted

(***************************************************************************)
(* calculateNumericStats.  The numeric values of this model are unsigned   *)
(* digit strings, so a parsed value is a small integer, and the sums,      *)
(* differences and comparisons of such float64 values are exact; the       *)
(* divisions and the bucket bounds are rounded as float64 rounds them.     *)
(* StdDev is not kept: the outlier test |v-mean|/stdDev > 3 is evaluated   *)
(* on the sums it is computed from.                                        *)
(***************************************************************************)
bucketCount == 10

\* &ColumnProfile{Name: colName, ...}: the other fields hold zero values
NewColumn(name) ==
    [Name |-> name, DataType |-> "", Count |-> 0, MissingCount |-> 0, UniqueCount |-> 0,
     Min |-> NilValue, Max |-> NilValue, Mean |-> FZero, Median |-> FZero,
     HistogramBuckets |-> <<>>, TopValues |-> <<>>,
     IsNumeric |-> FALSE, IsCategorical |-> FALSE, IsDateTime |-> FALSE, IsUnique |-> FALSE,
     QualityIssues |-> <<>>]

HistogramBucket(lower, upper, count) ==
    [LowerBound |-> lower, UpperBound |-> upper, Count |-> count]

\* the results int(NaN) may have: converting a float64 the int cannot hold
\* gives an implementation-dependent value.  -1 stands for the smallest int64
\* (amd64), 0 is what arm64 gives, bucketCount stands for the largest int64
\* (riscv64).
IntOfNaN == {-1, 0, bucketCount}

\* the values ParseFloat accepts, in order, as numbers
NumValues(values) ==
    LET parsed == SelectSeq(values, ParsesAsFloat)
    IN  [i \in 1..Len(parsed) |-> Atoi(parsed[i])]

RECURSIVE SumSeq(_)
SumSeq(nums) == IF nums = <<>> THEN 0 ELSE nums[1] + SumSeq(Tail(nums))

SeqMin(nums) == CHOOSE v \in {nums[i] : i \in 1..Len(nums)} : \A i \in 1..Len(nums) : v <= nums[i]
SeqMax(nums) == CHOOSE v \in {nums[i] : i \in 1..Len(nums)} : \A i \in 1..Len(nums) : v >= nums[i]

\* the inner loop of the insertion sort: key moves left past every larger value
InsertNum(sorted, key) ==
    LET stay == {j \in 1..Len(sorted) : ~(sorted[j] > key)}
        k    == IF stay = {} THEN 0 ELSE CHOOSE j \in stay : \A x \in stay : x <= j
    IN  SubSeq(sorted, 1, k) \o <<key>> \o SubSeq(sorted, k + 1, Len(sorted))

RECURSIVE SortNums(_, _)
\* for i := 1; i < len(numValues); i++ { ... }, from position i on
SortNums(nums, i) ==
    IF i > Len(nums) THEN nums
    ELSE SortNums(InsertNum(SubSeq(nums, 1, i - 1), nums[i]) \o SubSeq(nums, i + 1, Len(nums)),
                  i + 1)

Median(sorted) ==
    LET mid == Len(sorted) \div 2
    IN  IF Len(sorted) % 2 = 0 THEN FDivInt(sorted[mid] + sorted[mid + 1], 2)
        ELSE FFromInt(sorted[mid + 1])

\* the largest number a numeric value of this model denotes
MaxNumber == 10

\* int(float64(d) / bucketSize) with bucketSize = float64(spread) / 10, for
\* the differences v - min = d and max - min = spread of this model's numbers
QuotientTable ==
    [spread \in 1..MaxNumber |->
        [d \in 0..spread |-> FTrunc(FIntDiv(d, FDivInt(spread, bucketCount)))]]

\* int((v - min) / bucketSize); 0/0 is NaN when the bucket size is zero
RawBucketIndex(v, min, max, nan) ==
    IF max = min THEN nan ELSE QuotientTable[max - min][v - min]

\* the index with its clamp to the last bucket
BucketIndex(v, min, max, nan) ==
    LET bucketIndex == RawBucketIndex(v, min, max, nan)
    IN  IF bucketIndex >= bucketCount THEN bucketCount - 1 ELSE bucketIndex

\* the buckets of bounds min + i*bucketSize, the last one closed at max, each
\* with the number of values whose index is its own; index i of the code is
\* i + 1 here
Buckets(nums, min, max, bucketSize, index) ==
    [b \in 1..bucketCount |->
        HistogramBucket(FAddInt(min, FMulInt(bucketSize, b - 1)),
                        IF b = bucketCount THEN FFromInt(max)
                        ELSE FAddInt(min, FMulInt(bucketSize, b)),
                        Cardinality({i \in 1..Len(nums) : index[nums[i]] = b - 1}))]

\* the buckets after the counting loop
Histogram(nums, min, max, nan) ==
    Buckets(nums, min, max, FDivInt(max - min, bucketCount),
            [v \in {nums[i] : i \in 1..Len(nums)} |-> BucketIndex(v, min, max, nan)])

\* the number of values with |v - mean| / stdDev > 3, when stdDev > 0:
\* with n values of sum s and square sum q, variance = (n*q - s*s) / n^2 and
\* the test is (n*v - s)^2 > 9 * (n*q - s*s)
OutlierCount(nums) ==
    LET n == Len(nums)
        s == SumSeq(nums)
        q == SumSeq([i \in 1..n |-> nums[i] * nums[i]])
    IN  IF n * q - s * s > 0
        THEN Cardinality({i \in 1..n : (n * nums[i] - s) * (n * nums[i] - s) > 9 * (n * q - s * s)})
        ELSE 0

OutlierIssues(outlierCount, n) ==
    IF outlierCount > 0
    THEN LET outlierPct == FMulInt(FDivInt(outlierCount, n), 100)
         IN  << Issue("outliers", IF FGtInt(outlierPct, 10) THEN 3
                                  ELSE IF FGtInt(outlierPct, 5) THEN 2 ELSE 1) >>
    ELSE <<>>

\* calculateNumericStats from the histogram on, for the parsed values
\* numValues with their min and max
StatsOf(col, numValues, min, max, nan) ==
    IF \E v \in {numValues[i] : i \in 1..Len(numValues)} : RawBucketIndex(v, min, max, nan) < 0
    THEN [panic |-> TRUE, col |-> col]
    ELSE [panic |-> FALSE,
          col |-> [col EXCEPT
              !.Min = FFromInt(min),
              !.Max = FFromInt(max),
              !.Mean = FDivInt(SumSeq(numValues), Len(numValues)),
              !.Median = Median(SortNums(numValues, 2)),
              !.HistogramBuckets = Histogram(numValues, min, max, nan),
              !.QualityIssues = col.QualityIssues
                  \o OutlierIssues(OutlierCount(numValues), Len(numValues))]]

\* calculateNumericStats once the values are parsed
StatsOfParsed(col, numValues, nan) ==
    IF Len(numValues) = 0 THEN [panic |-> FALSE, col |-> col]
    ELSE StatsOf(col, numValues, SeqMin(numValues), SeqMax(numValues), nan)

\* calculateNumericStats(col, values) on a build where int(NaN) = nan: whether
\* it panics (index out of range), and col when it returns
calculateNumericStats(col, values, nan) == StatsOfParsed(col, NumValues(values), nan)

(***************************************************************************)
(* detectQualityIssues and collectDatasetQualityIssues                     *)
(***************************************************************************)
UpperCase == <<"A", "B", "C", "D", "E", "F", "G", "H", "I", "J", "K", "L", "M",
               "N", "O", "P", "Q", "R", "S", "T", "U", "V", "W", "X", "Y", "Z">>
LowerCase == <<"a", "b", "c", "d", "e", "f", "g", "h", "i", "j", "k", "l", "m",
               "n", "o", "p", "q", "r", "s", "t", "u", "v", "w", "x", "y", "z">>

\* strings.ToLower, for the letters A to Z
ToLower(s) ==
    [i \in 1..Len(s) |->
        IF \E k \in 1..Len(UpperCase) : UpperCase[k] = s[i]
        THEN LowerCase[CHOOSE k \in 1..Len(UpperCase) : UpperCase[k] = s[i]]
        ELSE s[i]]

\* strings.Contains
Contains(s, substr) ==
    \E i \in 0..(Len(s) - Len(substr)) : SubSeq(s, i + 1, i + Len(substr)) = substr

\* the severity of a percentage float64(part) / float64(whole) * 100 that is
\* low up to 5, medium up to 20 and high above; x/0 is +Inf for x > 0
PercentSeverity(part, whole, low) ==
    IF whole = 0 THEN 3
    ELSE LET percentage == FMulInt(FDivInt(part, whole), 100)
         IN  IF FGtInt(percentage, 20) THEN 3
             ELSE IF FGtInt(percentage, 5) THEN 2 ELSE low

\* the thresholds taken as reached at exactly 5% and 20%
MissingValueIssuesFromThreshold(col, rowCount) ==
    IF col.MissingCount > 0
    THEN << Issue("missing_values",
                  IF col.MissingCount * 100 >= 20 * rowCount THEN 3
                  ELSE IF col.MissingCount * 100 >= 5 * rowCount THEN 2 ELSE 1) >>
    ELSE <<>>

MissingValueIssues(col, rowCount) ==
    IF col.MissingCount > 0
    THEN << Issue("missing_values", PercentSeverity(col.MissingCount, rowCount, 1)) >>
    ELSE <<>>

LikelyIdIssues(col) ==
    IF col.UniqueCount = col.Count /\ Contains(ToLower(col.Name), <<"i", "d">>)
    THEN << Issue("likely_id", 1) >>
    ELSE <<>>

ImbalancedIssues(col) ==
    IF /\ col.IsCategorical
       /\ Len(col.TopValues) > 0
       /\ FGtInt(FMulInt(FDivInt(col.TopValues[1].Count, col.Count), 100), 90)
    THEN << Issue("imbalanced", 2) >>
    ELSE <<>>

\* the three rules run twice over the column
DetectQualityIssuesTwice(col, rowCount) ==
    [col EXCEPT !.QualityIssues =
        @ \o MissingValueIssues(col, rowCount) \o LikelyIdIssues(col) \o ImbalancedIssues(col)
          \o MissingValueIssues(col, rowCount) \o LikelyIdIssues(col) \o ImbalancedIssues(col)]

detectQualityIssues(col, rowCount) ==
    [col EXCEPT !.QualityIssues =
        @ \o MissingValueIssues(col, rowCount) \o LikelyIdIssues(col) \o ImbalancedIssues(col)]

HighMissingIssues(profile) ==
    IF profile.RowCount > 0 /\ profile.ColumnCount > 0
    THEN LET severity == PercentSeverity(profile.MissingCells,
                                         profile.RowCount * profile.ColumnCount, 0)
         IN  IF severity > 0 THEN << Issue("high_missing_values", severity) >> ELSE <<>>
    ELSE <<>>

DuplicateRowIssues(profile) ==
    IF profile.RowCount > 0 /\ profile.DuplicateRows > 0
    THEN << Issue("duplicate_rows",
                  PercentSeverity(profile.DuplicateRows, profile.RowCount, 1)) >>
    ELSE <<>>

collectDatasetQualityIssues(profile) ==
    [profile EXCEPT !.QualityIssues =
        @ \o HighMissingIssues(profile) \o DuplicateRowIssues(profile)]

(***************************************************************************)
(* ProfileCSV.  The csv.Reader is the environment: it yields the header,   *)
(* then data records one at a time, and fails on a record whose number of  *)
(* fields differs from the header's (FieldsPerRecord is left at 0) or on   *)
(* a malformed line.  File name, size and clock readings are not kept.     *)
(***************************************************************************)
MaxRows == 2

ID == <<"i", "d">>
X == <<"x">>

\* header rows: one column, two columns, two columns of the same name
Headers == {<<ID>>, <<ID, X>>, <<X, X>>}

\* field values: empty, two numbers, and a text holding the join separator
FieldVocab == {<<>>, <<"1">>, <<"2">>, <<"1", "|", "1">>}

\* the field values of the rows the reader rejects
RejectedVocab == {<<>>, <<"1">>}

\* the records of n fields
Records(n) == [1..n -> FieldVocab]

RECURSIVE Join(_, _)
\* strings.Join(elems, sep)
Join(elems, sep) ==
    IF elems = <<>> THEN <<>>
    ELSE IF Len(elems) = 1 THEN elems[1]
    ELSE elems[1] \o sep \o Join(Tail(elems), sep)

\* m[key]++ on a map[string]int
IncCount(m, key) ==
    IF key \in DOMAIN m THEN [m EXCEPT ![key] = @ + 1] ELSE m @@ (key :> 1)

\* profile := &DatasetProfile{...} with a ColumnProfile per header name
NewProfile(hdr) ==
    [Format |-> "CSV", RowCount |-> 0, ColumnCount |-> Len(hdr), MissingCells |-> 0,
     DuplicateRows |-> 0,
     Columns |-> [name \in {hdr[i] : i \in 1..Len(hdr)} |-> NewColumn(name)],
     QualityIssues |-> <<>>, QualityScore |-> 0]

\* the body of the field loop with the empty value tallied in valueCounts
\* as well
ScanFieldCountingEmpty(st, colName, value) ==
    IF value = <<>>
    THEN [st EXCEPT !.Columns[colName].MissingCount = @ + 1,
                    !.missingCells = @ + 1,
                    !.valueCounts[colName] = IncCount(@, value)]
    ELSE [st EXCEPT !.columnValues[colName] = Append(@, value),
                    !.valueCounts[colName] = IncCount(@, value)]

\* the body of the field loop without missingCells++
ScanFieldWithoutTotal(st, colName, value) ==
    IF value = <<>>
    THEN [st EXCEPT !.Columns[colName].MissingCount = @ + 1]
    ELSE [st EXCEPT !.columnValues[colName] = Append(@, value),
                    !.valueCounts[colName] = IncCount(@, value)]

\* the body of the field loop without the continue after an empty value
ScanFieldWithoutContinue(st, colName, value) ==
    IF value = <<>>
    THEN [st EXCEPT !.Columns[colName].MissingCount = @ + 1,
                    !.missingCells = @ + 1,
                    !.columnValues[colName] = Append(@, value),
                    !.valueCounts[colName] = IncCount(@, value)]
    ELSE [st EXCEPT !.columnValues[colName] = Append(@, value),
                    !.valueCounts[colName] = IncCount(@, value)]

\* the body of the field loop for the field value of column colName, on the
\* scan state st = [Columns, missingCells, columnValues, valueCounts]
ScanField(st, colName, value) ==
    IF value = <<>>
    THEN [st EXCEPT !.Columns[colName].MissingCount = @ + 1,
                    !.missingCells = @ + 1]
    ELSE [st EXCEPT !.columnValues[colName] = Append(@, value),
                    !.valueCounts[colName] = IncCount(@, value)]

RECURSIVE ScanFields(_, _, _, _)
\* for i, value := range record { if i >= len(header) { continue } ... },
\* from field i on
ScanFields(st, hdr, record, i) ==
    IF i > Len(record) THEN st
    ELSE ScanFields(IF i > Len(hdr) THEN st ELSE ScanField(st, hdr[i], record[i]),
                    hdr, record, i + 1)

RECURSIVE SumCounts(_, _)
SumCounts(counts, keys) ==
    IF keys = {} THEN 0
    ELSE LET k == CHOOSE x \in keys : TRUE
         IN  counts[k] + SumCounts(counts, keys \ {k})

\* the duplicate count with every occurrence of a repeated row counted
DuplicatesCountingFirst(hashes) ==
    SumCounts(hashes, {k \in DOMAIN hashes : hashes[k] > 1})

\* for _, count := range rowHashes { if count > 1 { duplicateRows += count - 1 } }
DuplicateRows(hashes) ==
    SumCounts([k \in DOMAIN hashes |-> hashes[k] - 1], {k \in DOMAIN hashes : hashes[k] > 1})

\* the limit of col.TopValues = getTopValues(valueCounts[colName], 5)
ProfileTopLimit == 5

\* the lists getTopValues may return for a table: one per order of the map range
TopValueLists(counts, limit) ==
    {getTopValues(counts, limit, order) : order \in MapOrders(DOMAIN counts)}

\* the column after the assignments of lines 117 to 127, getTopValues
\* returning topValues
TypedColumn(col, values, dataType, uniqueCount, rows, topValues) ==
    [col EXCEPT
        !.Count = Len(values),
        !.DataType = dataType,
        !.IsNumeric = dataType = "integer" \/ dataType = "float",
        !.IsDateTime = dataType = "datetime",
        !.UniqueCount = uniqueCount,
        !.IsCategorical = uniqueCount <= rows \div 10 /\ uniqueCount <= 100,
        !.IsUnique = uniqueCount = Len(values),
        !.TopValues = topValues]

\* if col.IsNumeric { calculateNumericStats(col, values) }
StatsIfNumeric(col, values, nan) ==
    IF col.IsNumeric THEN calculateNumericStats(col, values, nan)
    ELSE [panic |-> FALSE, col |-> col]

\* detectQualityIssues(col, profile.RowCount), unless the statistics panicked
DetectAfterStats(stats, rows) ==
    [panic |-> stats.panic, col |-> detectQualityIssues(stats.col, rows)]

\* the body of the loop over columnValues for one column, on a build where
\* int(NaN) = nan
FinalizeColumn(col, values, counts, rows, topValues, nan) ==
    DetectAfterStats(
        StatsIfNumeric(TypedColumn(col, values, inferDataType(values),
                                   Cardinality(DOMAIN counts), rows, topValues),
                       values, nan),
        rows)

\* the profile once every column is finalized: the dataset issues and the score
ScoredProfile(issued) ==
    [issued EXCEPT !.QualityScore = CalculateQualityScore(issued)]

\* os.Open or file.Stat fails
OpenError ==
    /\ pPc = "start"
    /\ dFile \in {"any", "absent", "unopenable"}
    /\ pPc' = "error"
    /\ \E e \in {"failed to open file", "failed to get file stats"} :
          /\ pErr' = e
          /\ pHandle' = IF e = "failed to open file" THEN "unopened" ELSE "closed"
          /\ pOpens' = IF e = "failed to open file" THEN pOpens ELSE pOpens + 1
    /\ pReturn' = NilValue
    /\ UNCHANGED <<pHeader, pRecords, pRowCount, pMissingCells, pRowHashes, pColumnValues,
                   pValueCounts, pProfile, pFailed>>
    /\ UNCHANGED <<statsVars, scoreVars, inferVars, topVars, datasetVars, pearsonVars, matrixVars, detectVars, reconVars>>

\* the first reader.Read() fails (an empty file, a malformed line)
HeaderError ==
    /\ pPc = "start"
    /\ dFile \in {"any", "empty"}
    /\ pPc' = "error"
    /\ pErr' = "failed to read CSV header"
    /\ pReturn' = NilValue
    /\ pHandle' = "closed"
    /\ pOpens' = pOpens + 1
    /\ UNCHANGED <<pHeader, pRecords, pRowCount, pMissingCells, pRowHashes, pColumnValues,
                   pValueCounts, pProfile, pFailed>>
    /\ UNCHANGED <<statsVars, scoreVars, inferVars, topVars, datasetVars, pearsonVars, matrixVars, detectVars, reconVars>>

\* the header is read; the profile and the scan tables are set up
ReadHeader ==
    /\ pPc = "start"
    /\ dFile \in {"any", "readable"}
    /\ \E hdr \in Headers :
          /\ pHeader' = hdr
          /\ pProfile' = NewProfile(hdr)
          /\ pColumnValues' = [name \in {hdr[i] : i \in 1..Len(hdr)} |-> <<>>]
          /\ pValueCounts' = [name \in {hdr[i] : i \in 1..Len(hdr)} |-> <<>>]
    /\ pPc' = "scan"
    /\ pHandle' = "open"
    /\ pOpens' = pOpens + 1
    /\ UNCHANGED <<pErr, pRecords, pRowCount, pMissingCells, pRowHashes, pFailed, pReturn>>
    /\ UNCHANGED <<statsVars, scoreVars, inferVars, topVars, datasetVars, pearsonVars, matrixVars, detectVars, reconVars>>

\* one pass of the read loop on a record the reader accepts
ReadRow ==
    /\ pPc = "scan"
    /\ pRowCount < MaxRows
    /\ \E record \in Records(Len(pHeader)) :
          LET st == ScanFields([Columns |-> pProfile.Columns, missingCells |-> pMissingCells,
                                columnValues |-> pColumnValues, valueCounts |-> pValueCounts],
                               pHeader, record, 1)
          IN  /\ pRecords' = Append(pRecords, record)
              /\ pRowCount' = pRowCount + 1
              /\ pRowHashes' = IncCount(pRowHashes, Join(record, <<"|">>))
              /\ pProfile' = [pProfile EXCEPT !.Columns = st.Columns]
              /\ pMissingCells' = st.missingCells
              /\ pColumnValues' = st.columnValues
              /\ pValueCounts' = st.valueCounts
    /\ UNCHANGED <<pPc, pErr, pHeader, pFailed, pReturn, pHandle, pOpens>>
    /\ UNCHANGED <<statsVars, scoreVars, inferVars, topVars, datasetVars, pearsonVars, matrixVars, detectVars, reconVars>>

\* the rows reader.Read() rejects after a header of n fields: a record with
\* another number of fields (the reader's FieldsPerRecord is 0, so the header
\* fixes the count), or a line that is not well-formed CSV
RejectedRows(n) ==
    {[err |-> "wrong number of fields", record |-> r] :
        r \in UNION {[1..k -> RejectedVocab] : k \in {n - 1, n + 1} \ {0}}}
      \cup {[err |-> "bare quote in field", record |-> <<>>]}

\* the read loop going on after a failed reader.Read(), the row left out
ReadErrorSkippingRow ==
    /\ pPc = "scan"
    /\ \E bad \in RejectedRows(Len(pHeader)) : pFailed' = <<bad>>
    /\ UNCHANGED <<pPc, pErr, pReturn, pHandle, pOpens>>
    /\ UNCHANGED <<pHeader, pRecords, pRowCount, pMissingCells, pRowHashes, pColumnValues,
                   pValueCounts, pProfile>>
    /\ UNCHANGED <<statsVars, scoreVars, inferVars, topVars, datasetVars, pearsonVars, matrixVars, detectVars, reconVars>>

\* the row error returned with the file left as it is, as if file.Close() were
\* a statement before the final return and not deferred
ReadErrorLeavingOpen ==
    /\ pPc = "scan"
    /\ \E bad \in RejectedRows(Len(pHeader)) : pFailed' = <<bad>>
    /\ pPc' = "error"
    /\ pErr' = "error reading CSV"
    /\ pReturn' = NilValue
    /\ UNCHANGED <<pHandle, pOpens>>
    /\ UNCHANGED <<pHeader, pRecords, pRowCount, pMissingCells, pRowHashes, pColumnValues,
                   pValueCounts, pProfile>>
    /\ UNCHANGED <<statsVars, scoreVars, inferVars, topVars, datasetVars, pearsonVars, matrixVars, detectVars, reconVars>>

\* reader.Read() fails on a data row: return nil, fmt.Errorf(...); the deferred
\* file.Close() runs
ReadError ==
    /\ pPc = "scan"
    /\ \E bad \in RejectedRows(Len(pHeader)) : pFailed' = <<bad>>
    /\ pPc' = "error"
    /\ pErr' = "error reading CSV"
    /\ pReturn' = NilValue
    /\ pHandle' = "closed"
    /\ UNCHANGED pOpens
    /\ UNCHANGED <<pHeader, pRecords, pRowCount, pMissingCells, pRowHashes, pColumnValues,
                   pValueCounts, pProfile>>
    /\ UNCHANGED <<statsVars, scoreVars, inferVars, topVars, datasetVars, pearsonVars, matrixVars, detectVars, reconVars>>

\* io.EOF: the duplicate count, the loop over the columns, the dataset issues
\* and the score; a panic in calculateNumericStats ends the run
Finalize ==
    /\ pPc = "scan"
    /\ \E nan \in IntOfNaN :
       \E results \in {[name \in DOMAIN pColumnValues |->
                          {FinalizeColumn(pProfile.Columns[name], pColumnValues[name],
                                          pValueCounts[name], pRowCount, topValues, nan) :
                              topValues \in TopValueLists(pValueCounts[name], ProfileTopLimit)}]} :
       \E cols \in {f \in [DOMAIN results -> UNION {results[name] : name \in DOMAIN results}] :
                       \A name \in DOMAIN results : f[name] \in results[name]} :
          IF \E name \in DOMAIN cols : cols[name].panic
          THEN pPc' = "panic" /\ UNCHANGED <<pProfile, pReturn>>
          ELSE /\ pPc' = "done"
               /\ pProfile' = ScoredProfile(collectDatasetQualityIssues(
                                 [pProfile EXCEPT
                                     !.RowCount = pRowCount,
                                     !.MissingCells = pMissingCells,
                                     !.DuplicateRows = DuplicateRows(pRowHashes),
                                     !.Columns = [name \in DOMAIN cols |-> cols[name].col]]))
               /\ pReturn' = pProfile'
    /\ pHandle' = "closed"
    /\ UNCHANGED <<pErr, pHeader, pRecords, pRowCount, pMissingCells, pRowHashes, pColumnValues,
                   pValueCounts, pFailed, pOpens>>
    /\ UNCHANGED <<statsVars, scoreVars, inferVars, topVars, datasetVars, pearsonVars, matrixVars, detectVars, reconVars>>

Init ==
    /\ pPc = "start" /\ pErr = "" /\ pHeader = <<>> /\ pRecords = <<>>
    /\ pRowCount = 0 /\ pMissingCells = 0 /\ pRowHashes = <<>>
    /\ pColumnValues = <<>> /\ pValueCounts = <<>> /\ pProfile = <<>>
    /\ pFailed = <<>> /\ pReturn = NilValue
    /\ pHandle = "unopened" /\ pOpens = 0
    /\ StatsIdle /\ ScoreIdle /\ InferIdle /\ TopIdle
    /\ DatasetIdle /\ PearsonIdle /\ MatrixIdle /\ DetectIdle /\ ReconIdle

Next ==
    \/ OpenError
    \/ HeaderError
    \/ ReadHeader
    \/ ReadRow
    \/ ReadError
    \/ Finalize

Spec == Init /\ [][Next]_vars

(***************************************************************************)
(* Statistics harness: calculateNumericStats applied to a bounded list of  *)
(* values, as TestCalculateNumericStats applies it.                        *)
(***************************************************************************)
MaxValues == 3

StatsVocab == {<<"1">>, <<"2">>, <<"4">>, <<"1", "0">>, <<"x">>}

RECURSIVE ValueLists(_)
\* the value lists of at most n values
ValueLists(n) ==
    IF n = 0 THEN {<<>>}
    ELSE LET shorter == ValueLists(n - 1)
         IN  shorter \cup {Append(l, v) : l \in shorter, v \in StatsVocab}

\* the values of TestCalculateNumericStats
StatsFixture ==
    << <<"1">>, <<"2">>, <<"3">>, <<"4">>, <<"5">>, <<"6">>, <<"7">>, <<"8">>, <<"9">>,
       <<"1", "0">> >>

\* the column of TestCalculateNumericStats
StatsColumn ==
    [NewColumn(<<"t", "e", "s", "t", "_", "c", "o", "l">>) EXCEPT
        !.DataType = "integer", !.IsNumeric = TRUE]

StatsInit ==
    /\ nPc = "start"
    /\ nCol = StatsColumn
    /\ nValues \in ValueLists(MaxValues) \cup {StatsFixture}
    /\ CsvIdle /\ ScoreIdle /\ InferIdle /\ TopIdle
    /\ DatasetIdle /\ PearsonIdle /\ MatrixIdle /\ DetectIdle /\ ReconIdle

StatsCall ==
    /\ nPc = "start"
    /\ \E nan \in IntOfNaN :
          LET stats == calculateNumericStats(nCol, nValues, nan)
          IN  /\ nPc' = IF stats.panic THEN "panic" ELSE "done"
              /\ nCol' = stats.col
    /\ UNCHANGED <<nValues, csvVars, scoreVars, inferVars, topVars,
                   datasetVars, pearsonVars, matrixVars, detectVars, reconVars>>

StatsNext == StatsCall

SpecStats == StatsInit /\ [][StatsNext]_vars

(***************************************************************************)
(* Scorer harness: CalculateQualityScore applied to a bounded profile.     *)
(***************************************************************************)
MaxRowCount == 4
MaxColumnCount == 3
MaxMissingCells == 2
MaxDuplicateRows == 1
MaxDatasetIssues == 3

RECURSIVE IssueLists(_)
\* the issue lists of at most n issues, severities 1..3
IssueLists(n) ==
    IF n = 0 THEN {<<>>}
    ELSE LET shorter == IssueLists(n - 1)
         IN  shorter \cup {Append(l, Issue("test_issue", s)) : l \in shorter, s \in Severities}

ScoreColumnNames == {"a", "b"}

\* a column carries at most one issue here
ScoreColumnSets ==
    UNION {[names -> [QualityIssues : IssueLists(1)]] : names \in SUBSET ScoreColumnNames}

ScoreProfile(r, c, m, d, issues, columns) ==
    [RowCount |-> r, ColumnCount |-> c, MissingCells |-> m, DuplicateRows |-> d,
     QualityIssues |-> issues, Columns |-> columns]

NoColumns == [n \in {} |-> 0]

\* the profiles of TestCalculateQualityScore
ScoreFixtures ==
    { ScoreProfile(1000, 10, 0, 0, <<>>, NoColumns),
      ScoreProfile(1000, 10, 1000, 0, <<>>, NoColumns),
      ScoreProfile(1000, 10, 0, 0,
                   <<Issue("test_issue", 3), Issue("test_issue", 2)>>, NoColumns),
      ScoreProfile(1000, 10, 0, 100, <<>>, NoColumns),
      ScoreProfile(0, 0, 0, 0, <<>>, NoColumns) }

ScoreInit ==
    /\ sPc = "start"
    /\ sScore = 0
    /\ \/ sProfile \in ScoreFixtures
       \/ \E r \in 0..MaxRowCount, c \in 0..MaxColumnCount,
             m \in 0..MaxMissingCells, d \in 0..MaxDuplicateRows,
             issues \in IssueLists(MaxDatasetIssues), columns \in ScoreColumnSets :
               sProfile = ScoreProfile(r, c, m, d, issues, columns)
    /\ CsvIdle /\ StatsIdle /\ InferIdle /\ TopIdle
    /\ DatasetIdle /\ PearsonIdle /\ MatrixIdle /\ DetectIdle /\ ReconIdle

ScoreCall ==
    /\ sPc = "start"
    /\ sScore' = CalculateQualityScore(sProfile)
    /\ sPc' = "done"
    /\ UNCHANGED <<sProfile, csvVars, statsVars, inferVars, topVars,
                   datasetVars, pearsonVars, matrixVars, detectVars, reconVars>>

ScoreNext == ScoreCall

SpecScore == ScoreInit /\ [][ScoreNext]_vars

(***************************************************************************)
(* Inference harness: inferDataType applied to two bounded value lists,    *)
(* the second being the first (or its first 100 values) with a tail.       *)
(***************************************************************************)
MaxRuns == 2

V12 == <<"1", "2">>
V1p5 == <<"1", ".", "5">>
VDate == <<"2", "0", "2", "3", "-", "0", "1", "-", "0", "2">>
Vabc == <<"a", "b", "c">>

InferVocab == {V12, V1p5, VDate, Vabc}

\* lengths of a run of equal values: around the 90% threshold of 10 and of 100
RunLengths == {1, 9, 90}

\* lengths of the run that follows the first list in the second one
TailLengths == {0, 1, 90}

Repeat(v, n) == [i \in 1..n |-> v]

RECURSIVE RunLists(_)
\* the value lists made of at most n runs
RunLists(n) ==
    IF n = 0 THEN {<<>>}
    ELSE LET shorter == RunLists(n - 1)
         IN  shorter \cup {l \o Repeat(v, k) : l \in shorter, v \in InferVocab, k \in RunLengths}

Chars(a, b, c) == <<a, b, c>>
ISO(d) == <<"2", "0", "2", "3", "-", "0", "1", "-", "0", d>>
US(d) == <<"0", "1", "/", "0", d, "/", "2", "0", "2", "3">>

\* the table of TestInferDataType: values and the expected type
InferFixtures ==
    { <<  <<>>, "unknown" >>,
      <<  << <<"1">>, <<"2">>, <<"3">>, <<"4">>, <<"5">> >>, "integer" >>,
      <<  << <<"1", ".", "1">>, <<"2", ".", "2">>, <<"3", ".", "3">>, <<"4">>,
             <<"5", ".", "5">> >>, "float" >>,
      <<  << ISO("1"), ISO("2"), ISO("3") >>, "datetime" >>,
      <<  << US("1"), US("2"), US("3") >>, "datetime" >>,
      <<  << Chars("a", "b", "c"), Chars("d", "e", "f"), Chars("g", "h", "i"),
             Chars("j", "k", "l") >>, "string" >>,
      <<  << Chars("a", "b", "c"), Chars("1", "2", "3"), Chars("d", "e", "f"),
             Chars("4", "5", "6") >>, "string" >> }

InferInit ==
    /\ iPc = "start"
    /\ iType = "" /\ iOtherType = ""
    /\ \/ \E f \in InferFixtures : iValues = f[1] /\ iOther = f[1]
       \/ \E head \in RunLists(MaxRuns), v \in InferVocab, n \in TailLengths :
             /\ iValues = head
             /\ iOther = head \o Repeat(v, n)
    /\ CsvIdle /\ StatsIdle /\ ScoreIdle /\ TopIdle
    /\ DatasetIdle /\ PearsonIdle /\ MatrixIdle /\ DetectIdle /\ ReconIdle

InferCall ==
    /\ iPc = "start"
    /\ iType' = inferDataType(iValues)
    /\ iOtherType' = inferDataType(iOther)
    /\ iPc' = "done"
    /\ UNCHANGED <<iValues, iOther, csvVars, statsVars, scoreVars, topVars,
                   datasetVars, pearsonVars, matrixVars, detectVars, reconVars>>

InferNext == InferCall

SpecInfer == InferInit /\ [][InferNext]_vars

(***************************************************************************)
(* Top-values harness: getTopValues applied to a bounded frequency table.  *)
(***************************************************************************)
MaxCount == 2
MaxLimit == 3

TopKeys == {<<"a">>, <<"b">>, <<"c">>, <<"d">>}

\* the table of TestGetTopValues, with its limit
TopFixture ==
    [k \in {<<"a">>, <<"b">>, <<"c">>, <<"d">>, <<"e">>} |->
        IF k = <<"a">> THEN 10 ELSE IF k = <<"b">> THEN 5 ELSE IF k = <<"c">> THEN 3
        ELSE IF k = <<"d">> THEN 2 ELSE 1]

TopFixtureLimit == 3

\* a column of six distinct values, three of them repeated: more values than
\* ProfileCSV keeps
WideTable ==
    [k \in {<<"a">>, <<"b">>, <<"c">>, <<"d">>, <<"e">>, <<"f">>} |->
        IF k \in {<<"a">>, <<"c">>, <<"f">>} THEN 2 ELSE 1]

TopInit ==
    /\ tPc = "start"
    /\ tTop = <<>>
    /\ \/ tTable = TopFixture /\ tLimit = TopFixtureLimit
       \/ tTable = WideTable /\ tLimit = ProfileTopLimit
       \/ \E keys \in SUBSET TopKeys :
             /\ tTable \in [keys -> 1..MaxCount]
             /\ tLimit \in 0..MaxLimit
    /\ CsvIdle /\ StatsIdle /\ ScoreIdle /\ InferIdle
    /\ DatasetIdle /\ PearsonIdle /\ MatrixIdle /\ DetectIdle /\ ReconIdle

TopCall ==
    /\ tPc = "start"
    /\ \E order \in MapOrders(DOMAIN tTable) :
          tTop' = getTopValues(tTable, tLimit, order)
    /\ tPc' = "done"
    /\ UNCHANGED <<tTable, tLimit, csvVars, statsVars, scoreVars, inferVars,
                   datasetVars, pearsonVars, matrixVars, detectVars, reconVars>>

TopNext == TopCall

SpecTop == TopInit /\ [][TopNext]_vars

(***************************************************************************)
(* calculatePearsonCorrelation.  Go lets a build fuse x*y + z into one     *)
(* operation with one rounding: "none" is a build that rounds every        *)
(* operation (amd64 by default), "left" and "right" are builds that fuse   *)
(* the accumulations and, in a*b - c*d, the first or the second product.   *)
(***************************************************************************)
FusedBuilds == {"none", "left", "right"}

maxSampleSize == 10000

\* the series the sums run over: every step-th element when n > maxSampleSize
Sampled(x) ==
    IF Len(x) > maxSampleSize
    THEN LET step == Max(1, Len(x) \div maxSampleSize)
         IN  [k \in 1..((Len(x) - 1) \div step + 1) |-> x[(k - 1) * step + 1]]
    ELSE x

\* sum += a * b
Accumulate(sum, a, b, build) ==
    IF build = "none" THEN FAdd(sum, FMul(a, b)) ELSE FMulAdd(a, b, sum)

\* a*b - c*d
ProductDifference(a, b, c, d, build) ==
    IF build = "none" THEN FSub(FMul(a, b), FMul(c, d))
    ELSE IF build = "left" THEN FMulSub(a, b, FMul(c, d))
    ELSE FSubMul(FMul(a, b), c, d)

RECURSIVE PearsonSums(_, _, _, _, _)
\* for i := 0; i < n; i++ { sumX += x[i]; ... }, from position i on
PearsonSums(x, y, i, sums, build) ==
    IF i > Len(x) THEN sums
    ELSE PearsonSums(x, y, i + 1,
                     [sumX  |-> FAdd(sums.sumX, x[i]),
                      sumY  |-> FAdd(sums.sumY, y[i]),
                      sumXY |-> Accumulate(sums.sumXY, x[i], y[i], build),
                      sumX2 |-> Accumulate(sums.sumX2, x[i], x[i], build),
                      sumY2 |-> Accumulate(sums.sumY2, y[i], y[i], build)],
                     build)

NoSums == [sumX |-> ExZero, sumY |-> ExZero, sumXY |-> ExZero, sumX2 |-> ExZero, sumY2 |-> ExZero]

\* if denominator == 0 { return 0 }; return numerator / denominator
PearsonRatio(numerator, denominator) ==
    IF FEq(denominator, ExZero) THEN ExZero ELSE FDiv(numerator, denominator)

\* the numerator and the denominator, from the sums
PearsonOfSums(sums, nFloat, build) ==
    PearsonRatio(ProductDifference(nFloat, sums.sumXY, sums.sumX, sums.sumY, build),
                 FSqrt(FMul(ProductDifference(nFloat, sums.sumX2, sums.sumX, sums.sumX, build),
                            ProductDifference(nFloat, sums.sumY2, sums.sumY, sums.sumY, build))))

\* the correlation of two series of one length n > 0
PearsonOfSeries(x, y, build) ==
    PearsonOfSums(PearsonSums(x, y, 1, NoSums, build), FSigned(FFromInt(Len(x))), build)

\* the function without its check of the lengths: the sums over the
\* positions both series have
PearsonOnCommonPrefix(x, y, build) ==
    IF Min(Len(x), Len(y)) = 0 THEN ExZero
    ELSE PearsonOfSeries(SubSeq(x, 1, Min(Len(x), Len(y))),
                         SubSeq(y, 1, Min(Len(x), Len(y))), build)

\* calculatePearsonCorrelation(x, y) on the given build
calculatePearsonCorrelation(x, y, build) ==
    IF Len(x) # Len(y) \/ Len(x) = 0 THEN ExZero
    ELSE PearsonOfSeries(Sampled(x), Sampled(y), build)

(***************************************************************************)
(* CalculateCorrelationMatrix                                              *)
(***************************************************************************)
\* the characters of the names, in byte order
Alphabet == Digits \o UpperCase \o LowerCase

CharCode(c) == CHOOSE i \in 1..Len(Alphabet) : Alphabet[i] = c

\* a < b on strings: byte-wise, a proper prefix first
StringLess(a, b) ==
    \E i \in 1..(Len(b)) :
        /\ \A j \in 1..(i - 1) : j <= Len(a) /\ a[j] = b[j]
        /\ \/ i = Len(a) + 1
           \/ i <= Len(a) /\ CharCode(a[i]) < CharCode(b[i])

RECURSIVE SortStrings(_)
\* sort.Strings on a list of distinct names, given as a set
SortStrings(names) ==
    IF names = {} THEN <<>>
    ELSE LET first == CHOOSE a \in names : \A b \in names \ {a} : StringLess(a, b)
         IN  <<first>> \o SortStrings(names \ {first})

\* strconv.ParseFloat on an unsigned decimal with at most one point: the
\* float64 nearest to digits / 10^(number of decimals)
ParseFloat(s) ==
    LET points == {i \in 1..Len(s) : s[i] = "."}
        frac   == IF points = {} THEN 0 ELSE Len(s) - (CHOOSE i \in points : TRUE)
    IN  FSigned(FDivInt(Atoi(SelectSeq(s, IsDigit)), 10^frac))

\* a / 2, which is exact
FHalf(a) == IF a.sig = <<>> THEN a ELSE [a EXCEPT !.exp = @ - 1]

RECURSIVE BucketMidpoints(_, _)
\* the midpoint of each bucket, Count times, from bucket i on
BucketMidpoints(buckets, i) ==
    IF i > Len(buckets) THEN <<>>
    ELSE (IF buckets[i].Count <= 0 THEN <<>>
          ELSE [k \in 1..buckets[i].Count |->
                   FHalf(FAdd(FSigned(buckets[i].LowerBound), FSigned(buckets[i].UpperBound)))])
         \o BucketMidpoints(buckets, i + 1)

RECURSIVE TopValueNumbers(_, _)
\* each top value that parses as a number, Count times, from entry i on
TopValueNumbers(topValues, i) ==
    IF i > Len(topValues) THEN <<>>
    ELSE (IF ParsesAsFloat(topValues[i].Value)
          THEN [k \in 1..topValues[i].Count |-> ParseFloat(topValues[i].Value)]
          ELSE <<>>)
         \o TopValueNumbers(topValues, i + 1)

\* the midpoints alone: the top values are not appended
ReconstructFromBuckets(col) ==
    IF ~col.IsNumeric \/ Len(col.HistogramBuckets) = 0 THEN <<>>
    ELSE BucketMidpoints(col.HistogramBuckets, 1)

reconstructNumericValues(col) ==
    IF ~col.IsNumeric \/ Len(col.HistogramBuckets) = 0 THEN <<>>
    ELSE BucketMidpoints(col.HistogramBuckets, 1) \o TopValueNumbers(col.TopValues, 1)

\* the columns flagged numeric, whatever their Count
FlaggedColumns(profile) ==
    {name \in DOMAIN profile.Columns : profile.Columns[name].IsNumeric}

\* the names the loop over profile.Columns appends to numericColumns
NumericColumns(profile) ==
    {name \in DOMAIN profile.Columns :
        profile.Columns[name].IsNumeric /\ profile.Columns[name].Count > 0}

CorrelationPair(col1, col2, corr) ==
    [Column1 |-> col1, Column2 |-> col2, Correlation |-> corr]

RECURSIVE SeriesFrom(_, _, _)
\* numericData for the sorted columns, from column i on
SeriesFrom(profile, columns, i) ==
    IF i > Len(columns) THEN <<>>
    ELSE <<reconstructNumericValues(profile.Columns[columns[i]])>>
           \o SeriesFrom(profile, columns, i + 1)

RECURSIVE PairCorrelations(_, _, _, _)
\* corr for each i < j, in the order of the loop of lines 53 to 70, from
\* (i, j) on
PairCorrelations(numericData, build, i, j) ==
    IF i > Len(numericData) THEN <<>>
    ELSE IF j > Len(numericData) THEN PairCorrelations(numericData, build, i + 1, i + 2)
    ELSE <<[i |-> i, j |-> j,
            corr |-> calculatePearsonCorrelation(numericData[i], numericData[j], build)]>>
           \o PairCorrelations(numericData, build, i, j + 1)

\* matrix.Values by column position: 1.0 on the diagonal, corr mirrored
\* elsewhere
MatrixValues(columns, corrs) ==
    [a \in 1..Len(columns) |-> [b \in 1..Len(columns) |->
        IF a = b THEN FSigned(FFromInt(1))
        ELSE corrs[CHOOSE k \in 1..Len(corrs) :
                      {corrs[k].i, corrs[k].j} = {a, b}].corr]]

RECURSIVE PairsFrom(_, _, _, _)
\* allPairs: for i, for j > i, in that order, from (i, j) on
PairsFrom(columns, values, i, j) ==
    IF i > Len(columns) THEN <<>>
    ELSE IF j > Len(columns) THEN PairsFrom(columns, values, i + 1, i + 2)
    ELSE <<CorrelationPair(columns[i], columns[j], values[i][j])>>
           \o PairsFrom(columns, values, i, j + 1)

\* the less function handed to sort.Slice
PairLess(p, q) == FGt(FAbs(p.Correlation), FAbs(q.Correlation))

\* the lists with p put into the list s at a place where less holds for
\* neither neighbour against the order
Insertions(s, p) ==
    {SubSeq(s, 1, k) \o <<p>> \o SubSeq(s, k + 1, Len(s)) :
        k \in {i \in 0..Len(s) : /\ (i >= 1 => ~PairLess(p, s[i]))
                                  /\ (i < Len(s) => ~PairLess(s[i + 1], p))}}

RECURSIVE SortSlice(_, _, _)
\* the lists sort.Slice may leave: it is not stable, so pairs that less does
\* not order may come out in any order.  sorted holds the orders of the
\* first i - 1 pairs.
SortSlice(allPairs, i, sorted) ==
    IF i > Len(allPairs) THEN sorted
    ELSE SortSlice(allPairs, i + 1, UNION {Insertions(s, allPairs[i]) : s \in sorted})

topLimit == 10

\* the threshold 0.1
MinTopCorrelation == FSigned(FDivInt(1, 10))

\* the first topLimit pairs of the sorted list, those above the threshold kept
TopPairs(sorted) ==
    SelectSeq(SubSeq(sorted, 1, Min(topLimit, Len(sorted))),
              LAMBDA p : FGt(FAbs(p.Correlation), MinTopCorrelation))

\* the matrices for the sorted list of numeric columns
MatricesOf(columns, values) ==
    {[Columns |-> columns,
      Values |-> [a \in {columns[i] : i \in 1..Len(columns)} |->
                    [b \in {columns[i] : i \in 1..Len(columns)} |->
                        values[CHOOSE i \in 1..Len(columns) : columns[i] = a]
                              [CHOOSE j \in 1..Len(columns) : columns[j] = b]]],
      TopPairs |-> TopPairs(sorted)] :
        sorted \in SortSlice(PairsFrom(columns, values, 1, 2), 1, {<<>>})}

\* the matrices for the sorted list of numeric columns
MatricesOfColumns(profile, columns, build) ==
    MatricesOf(columns,
               MatrixValues(columns,
                            PairCorrelations(SeriesFrom(profile, columns, 1), build, 1, 2)))

\* the matrices for the set names of numeric columns
MatricesOfNames(profile, names, build) ==
    IF Cardinality(names) < 2 THEN {NilValue}
    ELSE MatricesOfColumns(profile, SortStrings(names), build)

\* the results CalculateCorrelationMatrix(profile) may have on the given build
CalculateCorrelationMatrix(profile, build) ==
    MatricesOfNames(profile, NumericColumns(profile), build)

(***************************************************************************)
(* Correlation harness: calculatePearsonCorrelation applied to two bounded *)
(* series of float64 values.                                               *)
(***************************************************************************)
\* the float64 nearest to k/10, as strconv.ParseFloat gives it
Tenths(k) == FSigned(FDivInt(k, 10))

\* 1.0, 1.3 and 2.0
PearsonVocab == {Tenths(10), Tenths(13), Tenths(20)}

SeriesLengths == 0..3

\* the series of these lengths
PearsonSeries == UNION {[1..n -> PearsonVocab] : n \in SeriesLengths}

PearsonInit ==
    /\ rPc = "start"
    /\ rX \in PearsonSeries
    /\ rY \in PearsonSeries
    /\ rCorr = <<>>
    /\ CsvIdle /\ StatsIdle /\ ScoreIdle /\ InferIdle /\ TopIdle
    /\ DatasetIdle /\ MatrixIdle /\ DetectIdle /\ ReconIdle

PearsonCall ==
    /\ rPc = "start"
    /\ \E build \in FusedBuilds : rCorr' = calculatePearsonCorrelation(rX, rY, build)
    /\ rPc' = "done"
    /\ UNCHANGED <<rX, rY, csvVars, statsVars, scoreVars, inferVars, topVars,
                   datasetVars, matrixVars, detectVars, reconVars>>

PearsonNext == PearsonCall

SpecPearson == PearsonInit /\ [][PearsonNext]_vars

(***************************************************************************)
(* Matrix harness: CalculateCorrelationMatrix applied to profiles whose    *)
(* columns are built as the column loop of ProfileCSV builds them.         *)
(***************************************************************************)
RECURSIVE Tally(_)
\* valueCounts[colName][value]++ for each value
Tally(values) ==
    IF values = <<>> THEN <<>>
    ELSE IncCount(Tally(SubSeq(values, 1, Len(values) - 1)), values[Len(values)])

\* the column of the given non-missing values, the range over its value
\* counts taken in ascending order, on a build where int(NaN) is 0
ColumnOf(name, values) ==
    FinalizeColumn(NewColumn(name), values, Tally(values), Len(values),
                   getTopValues(Tally(values), ProfileTopLimit, SortStrings(DOMAIN Tally(values))),
                   0).col

\* the column of three values 0.7, as that build profiles it: the bucket size
\* is zero and every value is counted in the first bucket
ConstantColumn(name) ==
    [NewColumn(name) EXCEPT
        !.DataType = "float", !.IsNumeric = TRUE, !.Count = 3, !.UniqueCount = 1,
        !.Min = FDivInt(7, 10), !.Max = FDivInt(7, 10),
        !.Mean = FDivInt(7, 10), !.Median = FDivInt(7, 10),
        !.HistogramBuckets =
            [b \in 1..bucketCount |->
                HistogramBucket(FDivInt(7, 10), FDivInt(7, 10), IF b = 1 THEN 3 ELSE 0)],
        !.TopValues = <<ValueCount(<<"0", ".", "7">>, 3)>>]

\* a column flagged numeric that holds no value
EmptyNumericColumn(name) == [NewColumn(name) EXCEPT !.DataType = "integer", !.IsNumeric = TRUE]

\* the column names, in ascending byte order: B, a, ab, k, z, z1
MatrixNames == <<<<"B">>, <<"a">>, <<"a", "b">>, <<"k">>, <<"z">>, <<"z", "1">>>>

Strs(digits) == [i \in 1..Len(digits) |-> <<Digits[digits[i] + 1]>>]

Text == <<<<"x">>, <<"y">>, <<"x">>>>

\* three datasets of six columns, each column given by its values, or as the
\* constant or the empty numeric column: six numeric columns of three values,
\* two of them alike;
\* numeric columns with a constant one, a text column, a shorter and an
\* empty one; three numeric columns around a constant one, with two text
\* columns
Of(digits) == [kind |-> "values", values |-> Strs(digits)]
Constant == [kind |-> "constant", values |-> <<>>]
Empty == [kind |-> "empty", values |-> <<>>]
Words == [kind |-> "values", values |-> Text]

DatasetValues ==
    << <<Of(<<1, 2, 3>>), Of(<<1, 2, 3>>), Of(<<2, 9, 9>>),
         Of(<<1, 5, 6>>), Of(<<3, 4, 9>>), Of(<<1, 7, 8>>)>>,
       <<Of(<<1, 2, 3>>), Constant, Of(<<1, 1, 9>>), Words, Of(<<4, 5>>), Empty>>,
       <<Of(<<1, 1, 9>>), Of(<<2, 9, 9>>), Constant, Of(<<1, 2, 3>>), Words, Words>> >>

MatrixColumn(name, given) ==
    IF given.kind = "constant" THEN ConstantColumn(name)
    ELSE IF given.kind = "empty" THEN EmptyNumericColumn(name)
    ELSE ColumnOf(name, given.values)

MatrixDatasets ==
    {[i \in 1..Len(MatrixNames) |-> MatrixColumn(MatrixNames[i], DatasetValues[d][i])] :
        d \in 1..Len(DatasetValues)}

\* the profile holding the columns of a dataset at the given places
MatrixProfile(dataset, places) ==
    [NewProfile(<<>>) EXCEPT
        !.ColumnCount = Cardinality(places),
        !.Columns = [name \in {MatrixNames[i] : i \in places} |->
                        dataset[CHOOSE i \in places : MatrixNames[i] = name]]]

MatrixInit ==
    /\ mPc = "start"
    /\ \E dataset \in MatrixDatasets, places \in SUBSET (1..Len(MatrixNames)) :
          mProfile = MatrixProfile(dataset, places)
    /\ mMatrix = NilValue
    /\ CsvIdle /\ StatsIdle /\ ScoreIdle /\ InferIdle /\ TopIdle
    /\ DatasetIdle /\ PearsonIdle /\ DetectIdle /\ ReconIdle

MatrixCall ==
    /\ mPc = "start"
    /\ \E build \in FusedBuilds :
          \E matrix \in CalculateCorrelationMatrix(mProfile, build) : mMatrix' = matrix
    /\ mPc' = "done"
    /\ UNCHANGED <<mProfile, csvVars, statsVars, scoreVars, inferVars, topVars,
                   datasetVars, pearsonVars, detectVars, reconVars>>

MatrixNext == MatrixCall

SpecMatrix == MatrixInit /\ [][MatrixNext]_vars

\* the function called on two series, or through the matrix of a profile
CorrelationInit == PearsonInit \/ MatrixInit

CorrelationNext ==
    \/ PearsonCall
    \/ MatrixCall

SpecCorrelation == CorrelationInit /\ [][CorrelationNext]_vars

(***************************************************************************)
(* ProfileDataset: the dispatch on the extension of the path, ProfileCSV   *)
(* for ".csv" and for every other extension but ".parquet" and ".json",    *)
(* then the score, the correlation matrix and the recommendations.         *)
(***************************************************************************)
\* filepath.Ext: the suffix from the last dot of the last element of the path
Ext(path) ==
    LET dots == {i \in 1..Len(path) :
                    path[i] = "." /\ \A j \in i..Len(path) : path[j] # "/"}
    IN  IF dots = {} THEN <<>>
        ELSE SubSeq(path, CHOOSE i \in dots : \A j \in dots : j <= i, Len(path))

RECURSIVE StripSlashes(_)
\* the path without its trailing slashes
StripSlashes(path) ==
    IF path # <<>> /\ path[Len(path)] = "/" THEN StripSlashes(SubSeq(path, 1, Len(path) - 1))
    ELSE path

\* filepath.Base: the last element of the path
Base(path) ==
    IF path = <<>> THEN <<".">>
    ELSE LET stripped == StripSlashes(path)
             slashes == {i \in 1..Len(stripped) : stripped[i] = "/"}
             last == IF slashes = {} THEN stripped
                     ELSE SubSeq(stripped, (CHOOSE i \in slashes : \A j \in slashes : j <= i) + 1,
                                 Len(stripped))
         IN  IF last = <<>> THEN <<"/">> ELSE last

ExtCsv == <<".", "c", "s", "v">>
ExtParquet == <<".", "p", "a", "r", "q", "u", "e", "t">>
ExtJson == <<".", "j", "s", "o", "n">>

\* the extension as the switch would see it without strings.ToLower
ExtensionAsWritten(path) == Ext(path)

\* the extension the switch sees
Extension(path) == ToLower(Ext(path))

\* the format label of the case taken for an extension without a reader
FormatLabel(extension) == IF extension = ExtParquet THEN "Parquet" ELSE "JSON"

\* the profile literal of the cases ".parquet" and ".json": the fields not
\* named keep their zero values
UnsupportedProfile(path, extension) ==
    [Filename |-> path, Format |-> FormatLabel(extension), RowCount |-> 0, ColumnCount |-> 0,
     MissingCells |-> 0, DuplicateRows |-> 0, Columns |-> <<>>,
     QualityIssues |-> <<Issue("unsupported_format", 2)>>, QualityScore |-> 0]

\* a >= b on float64 values: false when either is NaN
FGe(a, b) == ~IsNaN(a) /\ ~IsNaN(b) /\ ~FGt(b, a)

\* the threshold 0.7
StrongCorrelation == FSigned(FDivInt(7, 10))

\* the recommendations for the top pairs: what is handed to fmt.Sprintf for
\* each pair of magnitude 0.7 or more
RecommendationsFor(matrix) ==
    IF matrix = NilValue \/ matrix.TopPairs = <<>> THEN NilValue
    ELSE LET strong == SelectSeq(matrix.TopPairs,
                                 LAMBDA pair : FGe(FAbs(pair.Correlation), StrongCorrelation))
         IN  [i \in 1..Len(strong) |->
                [Positive |-> FGt(strong[i].Correlation, ExZero),
                 Correlation |-> strong[i].Correlation,
                 Column1 |-> strong[i].Column1, Column2 |-> strong[i].Column2]]

\* the profile scored first and then given one more issue when no matrix
\* could be computed
CompletedThenFlagged(profile, matrix) ==
    [QualityScore |-> CalculateQualityScore(profile),
     CorrelationMatrix |-> matrix,
     Recommendations |-> RecommendationsFor(matrix),
     QualityIssues |-> IF matrix = NilValue
                       THEN Append(profile.QualityIssues, Issue("no_correlations", 2))
                       ELSE profile.QualityIssues] @@ profile

\* lines 265-295: the profile with its score, matrix and recommendations
Completed(profile, matrix) ==
    [QualityScore |-> CalculateQualityScore(profile),
     CorrelationMatrix |-> matrix,
     Recommendations |-> RecommendationsFor(matrix)] @@ profile

\* the profiles ProfileDataset may return for the profile of one of the cases
CompletedProfiles(profile) ==
    UNION {{Completed(profile, matrix) : matrix \in CalculateCorrelationMatrix(profile, build)} :
              build \in FusedBuilds}

\* the paths given: ".csv", no extension, the two formats without a reader in
\* several cases of letters, a dot in a directory name, a double extension
Paths ==
    { <<"f", ".", "c", "s", "v">>,
      <<"f">>,
      <<"f", ".", "p", "a", "r", "q", "u", "e", "t">>,
      <<"F", ".", "P", "A", "R", "Q", "U", "E", "T">>,
      <<"f", ".", "J", "s", "o", "n">>,
      <<"d", ".", "j", "s", "o", "n", "/", "f">>,
      <<"f", ".", "c", "s", "v", ".", "j", "s", "o", "n">> }

FileConditions == {"absent", "unopenable", "empty", "readable"}

\* the calls made: every path with every condition of the file, a readable
\* file under the paths that go to ProfileCSV only under "f.csv"
DatasetInputs ==
    {in \in Paths \X FileConditions :
        in[2] = "readable" =>
            (Extension(in[1]) \in {ExtParquet, ExtJson} \/ in[1] = <<"f", ".", "c", "s", "v">>)}

DatasetInit ==
    /\ dPc = "start"
    /\ \E in \in DatasetInputs : dPath = in[1] /\ dFile = in[2]
    /\ dProfile = NilValue /\ dErr = ""
    /\ CsvIdle /\ StatsIdle /\ ScoreIdle /\ InferIdle /\ TopIdle
    /\ PearsonIdle /\ MatrixIdle /\ DetectIdle /\ ReconIdle

\* case ".parquet", case ".json": the file is not opened; err stays nil and
\* the function runs to its end
Unsupported ==
    /\ dPc = "start"
    /\ Extension(dPath) \in {ExtParquet, ExtJson}
    /\ dProfile' \in CompletedProfiles(UnsupportedProfile(dPath, Extension(dPath)))
    /\ dErr' = ""
    /\ dPc' = "done"
    /\ UNCHANGED <<dPath, dFile>>
    /\ UNCHANGED <<csvVars, statsVars, scoreVars, inferVars, topVars, pearsonVars, matrixVars, detectVars, reconVars>>

\* case ".csv", default: ProfileCSV(filePath) is entered
CallProfileCSV ==
    /\ dPc = "start"
    /\ Extension(dPath) \notin {ExtParquet, ExtJson}
    /\ dPc' = "csv"
    /\ pPc' = "start"
    /\ UNCHANGED <<dPath, dFile, dProfile, dErr>>
    /\ UNCHANGED <<pErr, pHeader, pRecords, pRowCount, pMissingCells, pRowHashes,
                   pColumnValues, pValueCounts, pProfile, pFailed, pReturn, pHandle, pOpens>>
    /\ UNCHANGED <<statsVars, scoreVars, inferVars, topVars, pearsonVars, matrixVars, detectVars, reconVars>>

\* ProfileCSV returned an error and it is dropped: the function goes on with
\* the profile it has
ReturnIgnoringError ==
    /\ dPc = "csv"
    /\ pPc = "error"
    /\ dProfile' = [Filename |-> Base(dPath)] @@ NewProfile(pHeader)
    /\ dErr' = ""
    /\ dPc' = "done"
    /\ UNCHANGED <<dPath, dFile>>
    /\ UNCHANGED <<csvVars, statsVars, scoreVars, inferVars, topVars, pearsonVars, matrixVars, detectVars, reconVars>>

\* ProfileCSV returned an error: return nil, err
ReturnError ==
    /\ dPc = "csv"
    /\ pPc = "error"
    /\ dProfile' = NilValue
    /\ dErr' = pErr
    /\ dPc' = "error"
    /\ UNCHANGED <<dPath, dFile>>
    /\ UNCHANGED <<csvVars, statsVars, scoreVars, inferVars, topVars, pearsonVars, matrixVars, detectVars, reconVars>>

\* ProfileCSV returned a profile: the score, the matrix, the recommendations
ReturnProfile ==
    /\ dPc = "csv"
    /\ pPc = "done"
    /\ dProfile' \in CompletedProfiles([Filename |-> Base(dPath)] @@ pReturn)
    /\ dErr' = ""
    /\ dPc' = "done"
    /\ UNCHANGED <<dPath, dFile>>
    /\ UNCHANGED <<csvVars, statsVars, scoreVars, inferVars, topVars, pearsonVars, matrixVars, detectVars, reconVars>>

\* a panic in ProfileCSV goes up through ProfileDataset
Panicked ==
    /\ dPc = "csv"
    /\ pPc = "panic"
    /\ dPc' = "panic"
    /\ UNCHANGED <<dPath, dFile, dProfile, dErr>>
    /\ UNCHANGED <<csvVars, statsVars, scoreVars, inferVars, topVars, pearsonVars, matrixVars, detectVars, reconVars>>

DatasetNext ==
    \/ Unsupported
    \/ CallProfileCSV
    \/ OpenError
    \/ HeaderError
    \/ ReadHeader
    \/ ReadRow
    \/ ReadError
    \/ Finalize
    \/ ReturnError
    \/ ReturnProfile
    \/ Panicked

SpecDataset == DatasetInit /\ [][DatasetNext]_vars

(***************************************************************************)
(* detectQualityIssues called on its own, as TestDetectQualityIssues calls *)
(* it: a column with its counters set and a rowCount.                      *)
(***************************************************************************)
MaxDetectRows == 10

\* rowCount := 100 in TestDetectQualityIssues
TestRowCount == 100

DetectRowCounts == 1..MaxDetectRows \cup {TestRowCount}

\* Name: "test_col" in TestDetectQualityIssues
TestCol == <<"t", "e", "s", "t", "_", "c", "o", "l">>

\* &ColumnProfile{Name: ..., MissingCount: ..., QualityIssues: ...}: the
\* other fields hold zero values, as in TestDetectQualityIssues
FixtureColumn(name, missing, prior) ==
    [NewColumn(name) EXCEPT !.MissingCount = missing, !.QualityIssues = prior]

\* a column as the loop of ProfileCSV hands it to detectQualityIssues: its
\* values are all different (distinct) or all the same
ScannedColumn(name, rowCount, missing, distinct, categorical, prior) ==
    [NewColumn(name) EXCEPT
        !.Count = rowCount - missing,
        !.MissingCount = missing,
        !.UniqueCount = IF distinct \/ rowCount = missing THEN rowCount - missing ELSE 1,
        !.IsCategorical = categorical,
        !.TopValues = IF rowCount = missing THEN <<>>
                      ELSE << [Value |-> <<"1">>,
                               Count |-> IF distinct THEN 1 ELSE rowCount - missing] >>,
        !.QualityIssues = prior]

\* the issues calculateNumericStats may have appended before the call
PriorIssues == {<<>>, << Issue("outliers", 2) >>}

DetectColumns(rowCount) ==
    {FixtureColumn(name, missing, prior) :
        name \in {TestCol, ID}, missing \in 0..rowCount, prior \in PriorIssues}
    \cup UNION {{ScannedColumn(name, rowCount, missing, distinct, categorical, prior) :
                    name \in {TestCol, ID}, missing \in 0..rowCount, prior \in PriorIssues} :
                distinct \in BOOLEAN, categorical \in BOOLEAN}

DetectInit ==
    /\ qPc = "start"
    /\ qRowCount \in DetectRowCounts
    /\ qCol \in DetectColumns(qRowCount)
    /\ CsvIdle /\ StatsIdle /\ ScoreIdle /\ InferIdle /\ TopIdle
    /\ DatasetIdle /\ PearsonIdle /\ MatrixIdle /\ ReconIdle

DetectCall ==
    /\ qPc = "start"
    /\ qCol' = detectQualityIssues(qCol, qRowCount)
    /\ qPc' = "done"
    /\ UNCHANGED <<qRowCount, csvVars, statsVars, scoreVars, inferVars, topVars,
                   datasetVars, pearsonVars, matrixVars, reconVars>>

DetectNext == DetectCall

SpecDetect == DetectInit /\ [][DetectNext]_vars

\* the issue lists of a run of ProfileDataset, and those of the columns
\* detectQualityIssues may be handed
IssuesInit == DatasetInit \/ DetectInit

IssuesNext == DatasetNext \/ DetectNext

SpecIssues == IssuesInit /\ [][IssuesNext]_vars

(***************************************************************************)
(* reconstructNumericValues called on its own, on the columns ProfileCSV   *)
(* builds from lists of values.                                            *)
(***************************************************************************)
\* the columns the loop over columnValues may build from the given non-missing
\* values: one per order of the map range and per result of int(NaN), unless
\* calculateNumericStats panics
ProfiledColumns(name, values) ==
    LET done == {FinalizeColumn(NewColumn(name), values, Tally(values), Len(values),
                                topValues, nan) :
                    topValues \in TopValueLists(Tally(values), ProfileTopLimit),
                    nan \in IntOfNaN}
    IN  {result.col : result \in {r \in done : ~r.panic}}

ReconInputs ==
    UNION {{[values |-> values, col |-> col] : col \in ProfiledColumns(<<"a">>, values)} :
              values \in ValueLists(MaxValues)}
    \cup {[values |-> Repeat(<<"0", ".", "7">>, 3), col |-> ConstantColumn(<<"a">>)],
          [values |-> <<>>, col |-> EmptyNumericColumn(<<"a">>)]}

ReconInit ==
    /\ vPc = "start"
    /\ \E in \in ReconInputs : vSource = in.values /\ vCol = in.col
    /\ vRebuilt = <<>>
    /\ CsvIdle /\ StatsIdle /\ ScoreIdle /\ InferIdle /\ TopIdle
    /\ DatasetIdle /\ PearsonIdle /\ MatrixIdle /\ DetectIdle

ReconCall ==
    /\ vPc = "start"
    /\ vRebuilt' = reconstructNumericValues(vCol)
    /\ vPc' = "done"
    /\ UNCHANGED <<vCol, vSource, csvVars, statsVars, scoreVars, inferVars, topVars,
                   datasetVars, pearsonVars, matrixVars, detectVars>>

ReconNext == ReconCall

SpecRecon == ReconInit /\ [][ReconNext]_vars

(***************************************************************************)
(* Claims about CalculateQualityScore (under SpecScore)                    *)
(***************************************************************************)

\* C1: for every profile the score is an integer in [0,100], and it is exactly
\* 0 whenever RowCount = 0 or ColumnCount = 0.
C1_ScoreInRange ==
    sPc = "done" =>
        /\ sScore \in 0..100
        /\ (sProfile.RowCount = 0 \/ sProfile.ColumnCount = 0) => sScore = 0

\* an empty dataset (no rows, but columns, missing cells and issues) was scored
C1_Witness ==
    /\ sPc = "done"
    /\ sProfile.RowCount = 0
    /\ sProfile.ColumnCount > 0
    /\ sProfile.MissingCells > 0
    /\ sProfile.QualityIssues # <<>>
    /\ sScore = 0

\* the score of C2's formula, in exact integer arithmetic
ExactScore(profile) ==
    LET P1 == Min(30, (3 * profile.MissingCells * 100)
                        \div (profile.RowCount * profile.ColumnCount))
        P2 == Min(40, 5 * SumSeverity(profile.QualityIssues)
                        + SumColumnSeverity(profile.Columns, DOMAIN profile.Columns))
        P3 == Min(15, (2 * profile.DuplicateRows * 100) \div profile.RowCount)
    IN  Max(0, 100 - P1 - P2 - P3)

\* C2: with RowCount > 0 and ColumnCount > 0 the score equals
\* max(0, 100 - P1 - P2 - P3), P1 = min(30, trunc(3*missing*100/(rows*cols))),
\* P2 = min(40, 5*sum of dataset severities + sum of column severities),
\* P3 = min(15, trunc(2*duplicates*100/rows)).
C2_ScoreFormula ==
    (sPc = "done" /\ sProfile.RowCount > 0 /\ sProfile.ColumnCount > 0)
        => sScore = ExactScore(sProfile)

(***************************************************************************)
(* Claims about ProfileCSV (under Spec)                                    *)
(***************************************************************************)
\* the header has been read: the profile and the scan tables exist
Scanning == pPc \in {"scan", "done", "panic"} \/ (pPc = "error" /\ pErr = "error reading CSV")

\* the sum of MissingCount over the column profiles
MissingSum == SumCounts([name \in DOMAIN pProfile.Columns |->
                            pProfile.Columns[name].MissingCount],
                        DOMAIN pProfile.Columns)

\* the empty fields read so far, at positions within the header width
EmptyFields ==
    {<<i, j>> \in (1..Len(pRecords)) \X (1..Len(pHeader)) :
        j <= Len(pRecords[i]) /\ pRecords[i][j] = <<>>}

\* C3: once the header is read, the sum of MissingCount over the column
\* profiles equals the running missing-cell counter, both being the number of
\* empty fields read so far at positions within the header width; after
\* ProfileCSV succeeds that sum is the profile's MissingCells.
C3_MissingTotals ==
    Scanning =>
        /\ MissingSum = pMissingCells
        /\ pMissingCells = Cardinality(EmptyFields)
        /\ pPc = "done" => pProfile.MissingCells = MissingSum

\* a profile of two columns with different, nonzero numbers of missing cells
C3_Witness ==
    /\ pPc = "done"
    /\ \E a, b \in DOMAIN pProfile.Columns :
          /\ pProfile.Columns[a].MissingCount > pProfile.Columns[b].MissingCount
          /\ pProfile.Columns[b].MissingCount > 0
    /\ pProfile.MissingCells = Cardinality(EmptyFields)

\* the non-empty values read for a column name, as a set of <<row, position>>
CellsOf(name) ==
    {<<i, j>> \in (1..Len(pRecords)) \X (1..Len(pHeader)) :
        pHeader[j] = name /\ pRecords[i][j] # <<>>}

\* C4: in every profile ProfileCSV produces, every column has UniqueCount <=
\* Count, and IsUnique exactly when UniqueCount = Count (both 0 for a column
\* whose cells are all empty); Count is the number of the column's non-empty
\* cells and UniqueCount the number of distinct values among them.
C4_UniqueCount ==
    pPc = "done" =>
        \A name \in DOMAIN pProfile.Columns :
            LET col == pProfile.Columns[name] IN
            /\ col.UniqueCount <= col.Count
            /\ col.IsUnique <=> (col.UniqueCount = col.Count)
            /\ col.Count = Cardinality(CellsOf(name))
            /\ col.UniqueCount = Cardinality({pRecords[c[1]][c[2]] : c \in CellsOf(name)})

\* a profile with a column whose cells are all empty and a column that
\* repeats a value
C4_Witness ==
    /\ pPc = "done"
    /\ pProfile.RowCount >= 2
    /\ \E a, b \in DOMAIN pProfile.Columns :
          /\ pProfile.Columns[a].Count = 0
          /\ pProfile.Columns[a].UniqueCount = 0
          /\ pProfile.Columns[a].IsUnique
          /\ pProfile.Columns[b].UniqueCount < pProfile.Columns[b].Count
          /\ ~pProfile.Columns[b].IsUnique

\* the joined key of the i-th data row
RowKey(i) == Join(pRecords[i], <<"|">>)

\* the rows whose key an earlier row has
RepeatedKeys == {i \in 1..Len(pRecords) : \E j \in 1..(i - 1) : RowKey(j) = RowKey(i)}

\* C8: after the scan DuplicateRows is the number of rows whose joined key an
\* earlier row has (the first occurrence of a key is not counted, each later
\* one once), so it is RowCount minus the number of distinct keys and lies in
\* 0..RowCount-1 when there is a row.
C8_DuplicateRows ==
    pPc = "done" =>
        /\ pProfile.DuplicateRows = Cardinality(RepeatedKeys)
        /\ pProfile.DuplicateRows
              = pProfile.RowCount - Cardinality({RowKey(i) : i \in 1..Len(pRecords)})
        /\ pProfile.RowCount >= 1 =>
              (0 <= pProfile.DuplicateRows /\ pProfile.DuplicateRows <= pProfile.RowCount - 1)

\* a profile of a file whose second row repeats the first
C8_Witness ==
    /\ pPc = "done"
    /\ pProfile.RowCount = 2
    /\ pRecords[1] = pRecords[2]
    /\ pProfile.DuplicateRows = 1

\* the rows an earlier row is identical to, field by field
RepeatedRecords ==
    {i \in 1..Len(pRecords) : \E j \in 1..(i - 1) : pRecords[j] = pRecords[i]}

\* C9: only identical records count as duplicate rows: DuplicateRows is the
\* number of data rows that have an earlier row with the same field values at
\* every position, whatever characters the fields contain.
C9_OnlyIdenticalRows ==
    pPc = "done" => pProfile.DuplicateRows = Cardinality(RepeatedRecords)

(***************************************************************************)
(* Claims about calculateNumericStats (under SpecStats)                    *)
(***************************************************************************)
RECURSIVE BucketSum(_)
BucketSum(buckets) ==
    IF buckets = <<>> THEN 0 ELSE buckets[1].Count + BucketSum(Tail(buckets))

\* C5: once calculateNumericStats has run on values of which at least one
\* parses as a number, it has returned and the Count fields of the column's
\* histogram buckets sum to the number of values that parsed.
C5_HistogramTotal ==
    (nPc # "start" /\ Len(NumValues(nValues)) >= 1) =>
        /\ nPc = "done"
        /\ BucketSum(nCol.HistogramBuckets) = Len(NumValues(nValues))

(***************************************************************************)
(* Claims about inferDataType (under SpecInfer)                            *)
(***************************************************************************)
ClassCount(values, n, class) == Cardinality({i \in 1..n : Classify(values[i]) = class})

\* the type C6 states, thresholds in exact arithmetic
ClaimedType(values) ==
    IF Len(values) = 0 THEN "unknown"
    ELSE LET n == IF Len(values) < 100 THEN Len(values) ELSE 100
             class  == [i \in 1..n |-> Classify(values[i])]
             ints   == Cardinality({i \in 1..n : class[i] = "int"})
             floats == Cardinality({i \in 1..n : class[i] = "float"})
             dates  == Cardinality({i \in 1..n : class[i] = "date"})
         IN  IF 10 * ints >= 9 * n THEN "integer"
             ELSE IF 10 * (ints + floats) >= 9 * n THEN "float"
             ELSE IF 10 * dates >= 9 * n THEN "datetime"
             ELSE "string"

\* C6: inferDataType returns "unknown" for an empty sequence; otherwise, with
\* s = min(len, 100) and each sampled value tallied in one class, "integer" if
\* intCount >= 0.9*s, else "float" if intCount+floatCount >= 0.9*s, else
\* "datetime" if dateCount >= 0.9*s, else "string"; the table of
\* TestInferDataType gives the expected types.
C6_InferThresholds ==
    iPc = "done" =>
        /\ iType = ClaimedType(iValues)
        /\ iOtherType = ClaimedType(iOther)
        /\ \A f \in InferFixtures : iValues = f[1] => iType = f[2]

\* 90 integers followed by 90 dates: the sample of 100 holds exactly 90%
\* integers
C6_Witness ==
    /\ iPc = "done"
    /\ Len(iValues) = 180
    /\ ClassCount(iValues, 100, "int") = 90
    /\ ClassCount(iValues, 100, "date") = 10
    /\ iType = "integer"

AgreeOnWindow(a, b) ==
    /\ (Len(a) >= 100 /\ Len(b) >= 100) \/ Len(a) = Len(b)
    /\ \A i \in 1..(IF Len(a) < 100 THEN Len(a) ELSE 100) : a[i] = b[i]

\* C7: two value sequences that agree on their first min(len,100) positions
\* (both of length >= 100, or of equal length) get the same type.
C7_WindowOnly ==
    (iPc = "done" /\ AgreeOnWindow(iValues, iOther)) => iType = iOtherType

\* an integer column of more than 100 values, and the same column followed
\* by a value that is no number
C7_Witness ==
    /\ iPc = "done"
    /\ AgreeOnWindow(iValues, iOther)
    /\ Len(iOther) > Len(iValues) /\ Len(iValues) > 100
    /\ Classify(iOther[Len(iOther)]) = "none"
    /\ ClassCount(iValues, Len(iValues), "int") * 10 < 9 * Len(iValues)
    /\ iType = "integer"

(***************************************************************************)
(* Claims about getTopValues (under SpecTop)                               *)
(***************************************************************************)
TopKept == {tTop[i].Value : i \in 1..Len(tTop)}

\* C10: getTopValues(table, limit) returns min(limit, number of distinct
\* values) entries, each a (value, count) pair of the table, no value repeated,
\* in non-increasing count order, and every value left out has a count no
\* larger than the last value kept; {a:10,b:5,c:3,d:2,e:1} with limit 3 gives
\* [a:10, b:5, c:3]; with the limit 5 of ProfileCSV a column of six values
\* keeps five.
C10_TopValues ==
    tPc = "done" =>
        /\ Len(tTop) = (IF tLimit < Cardinality(DOMAIN tTable)
                        THEN tLimit ELSE Cardinality(DOMAIN tTable))
        /\ \A i \in 1..Len(tTop) :
              tTop[i].Value \in DOMAIN tTable /\ tTop[i].Count = tTable[tTop[i].Value]
        /\ \A i, j \in 1..Len(tTop) : tTop[i].Value = tTop[j].Value => i = j
        /\ \A i \in 1..(Len(tTop) - 1) : tTop[i].Count >= tTop[i + 1].Count
        /\ \A v \in DOMAIN tTable \ TopKept :
              tTop # <<>> => tTable[v] <= tTop[Len(tTop)].Count
        /\ (tTable = WideTable /\ tLimit = ProfileTopLimit) => Len(tTop) = 5
        /\ (tTable = TopFixture /\ tLimit = TopFixtureLimit) =>
              tTop = << ValueCount(<<"a">>, 10), ValueCount(<<"b">>, 5),
                        ValueCount(<<"c">>, 3) >>

\* a table cut by the limit, with counts that differ among the values kept and
\* a value left out that ties with the last one kept
C10_Witness ==
    /\ tPc = "done"
    /\ Len(tTop) = tLimit /\ tLimit >= 2
    /\ Cardinality(DOMAIN tTable) > tLimit
    /\ tTop[1].Count > tTop[Len(tTop)].Count
    /\ \E v \in DOMAIN tTable \ TopKept : tTable[v] = tTop[Len(tTop)].Count

(***************************************************************************)
(* Further claims about CalculateQualityScore (under SpecScore)            *)
(***************************************************************************)

\* C20: for every profile with RowCount > 0 and ColumnCount > 0, whatever its
\* missing cells, duplicates and issues, the score is at least 15.
C20_ScoreFloor ==
    (sPc = "done" /\ sProfile.RowCount > 0 /\ sProfile.ColumnCount > 0)
        => sScore >= 15

\* a non-empty dataset on which all three deductions reach their caps
C20_Witness ==
    /\ sPc = "done"
    /\ sProfile.RowCount > 0
    /\ sProfile.ColumnCount > 0
    /\ MissingPenalty(sProfile) = 30
    /\ UncappedIssuePenalty(sProfile) > 40
    /\ DuplicatePenalty(sProfile) = 15
    /\ sScore = 15

(***************************************************************************)
(* Claims about the errors of ProfileCSV (under Spec)                      *)
(***************************************************************************)

\* C13: a read error on a data row, after any number of rows scanned, ends the
\* run with an error and a nil profile: the row is not skipped, and no profile
\* of the rows before it is returned.
C13_ReadErrorAborts ==
    pFailed # <<>> =>
        /\ pPc = "error"
        /\ pErr = "error reading CSV"
        /\ pReturn = NilValue
        /\ pRowCount = Len(pRecords)

\* a row was rejected after a row was scanned
C13_Witness ==
    /\ pFailed # <<>>
    /\ pRecords # <<>>
    /\ pPc = "error"

\* the rows with more fields than the header, among those the reader was given
LongRows ==
    {k \in 1..Len(pRecords) : Len(pRecords[k]) > Len(pHeader)}
      \cup {Len(pRecords) + k : k \in {j \in 1..Len(pFailed) :
                                        Len(pFailed[j].record) > Len(pHeader)}}

\* C19: a data row with more fields than the header is accepted: it is counted
\* in the row count and the run goes on to a profile, not to an error.
C19_ExtraFieldsAccepted ==
    (pPc \in {"scan", "done", "error"} /\ LongRows # {}) =>
        /\ pErr = ""
        /\ \A k \in LongRows : k <= pRowCount

(***************************************************************************)
(* Claims about calculatePearsonCorrelation (under SpecPearson)            *)
(***************************************************************************)
FOne == FSigned(FFromInt(1))

\* C15: for series of equal length the returned correlation lies in [-1, 1].
C15_CorrelationBounded ==
    (rPc = "done" /\ Len(rX) = Len(rY)) =>
        /\ ~IsNaN(rCorr)
        /\ ~FGt(FAbs(rCorr), FOne)

\* whether all the elements of a series are equal
IsConstant(x) == \A i, j \in 1..Len(x) : x[i] = x[j]

\* C16: when either series is constant (so that the denominator is zero) the
\* returned correlation is exactly 0, not NaN.
C16_ZeroForConstantSeries ==
    (rPc = "done" /\ Len(rX) = Len(rY) /\ (IsConstant(rX) \/ IsConstant(rY))) =>
        rCorr = ExZero

(***************************************************************************)
(* Claims about CalculateCorrelationMatrix (under SpecMatrix)              *)
(***************************************************************************)
\* the columns flagged numeric that hold a value
NumericNames ==
    {name \in DOMAIN mProfile.Columns :
        mProfile.Columns[name].IsNumeric /\ mProfile.Columns[name].Count > 0}

IsNil(v) == DOMAIN v = {"nil"}

ListedColumns == {mMatrix.Columns[i] : i \in 1..Len(mMatrix.Columns)}

\* C17: with fewer than two columns flagged numeric and holding a value there is
\* no matrix; otherwise the matrix lists exactly those columns, each once,
\* in ascending order of their names.
C17_ListedColumns ==
    mPc = "done" =>
        IF Cardinality(NumericNames) < 2 THEN IsNil(mMatrix)
        ELSE /\ ~IsNil(mMatrix)
             /\ ListedColumns = NumericNames
             /\ Len(mMatrix.Columns) = Cardinality(NumericNames)
             /\ \A i, j \in 1..Len(mMatrix.Columns) :
                   i < j => StringLess(mMatrix.Columns[i], mMatrix.Columns[j])

\* a matrix of three columns or more, from a profile that also has a column
\* flagged numeric without a value and a column that is not numeric
C17_Witness ==
    /\ mPc = "done"
    /\ ~IsNil(mMatrix)
    /\ Len(mMatrix.Columns) >= 3
    /\ \E name \in DOMAIN mProfile.Columns :
          mProfile.Columns[name].IsNumeric /\ mProfile.Columns[name].Count = 0
    /\ \E name \in DOMAIN mProfile.Columns : ~mProfile.Columns[name].IsNumeric

\* C14: in a matrix every pair of listed columns has an entry, the diagonal
\* is exactly 1.0 and Values[a][b] == Values[b][a] (as float64 values compare).
C14_SymmetricMatrix ==
    (mPc = "done" /\ ~IsNil(mMatrix)) =>
        /\ DOMAIN mMatrix.Values = ListedColumns
        /\ \A a \in ListedColumns :
              /\ DOMAIN mMatrix.Values[a] = ListedColumns
              /\ mMatrix.Values[a][a] = FSigned(FFromInt(1))
              /\ \A b \in ListedColumns : FEq(mMatrix.Values[a][b], mMatrix.Values[b][a])

\* the number of pairs of listed columns whose correlation is larger in
\* magnitude than c
LargerPairs(c) ==
    Cardinality({p \in ListedColumns \X ListedColumns :
                    /\ StringLess(p[1], p[2])
                    /\ FGt(FAbs(mMatrix.Values[p[1]][p[2]]), FAbs(c))})

\* C18: TopPairs holds at most 10 pairs, each a pair of distinct listed columns
\* in name order, no pair twice, each with |Correlation| > 0.1 and among the ten
\* largest, in non-increasing order of |Correlation|.
C18_TopPairs ==
    (mPc = "done" /\ ~IsNil(mMatrix)) =>
        LET top == mMatrix.TopPairs IN
        /\ Len(top) <= 10
        /\ \A i \in 1..Len(top) :
              /\ top[i].Column1 \in ListedColumns
              /\ top[i].Column2 \in ListedColumns
              /\ StringLess(top[i].Column1, top[i].Column2)
              /\ top[i].Correlation = mMatrix.Values[top[i].Column1][top[i].Column2]
              /\ FGt(FAbs(top[i].Correlation), FSigned(FDivInt(1, 10)))
              /\ LargerPairs(top[i].Correlation) < 10
        /\ \A i, j \in 1..Len(top) :
              /\ (i # j =>
                    <<top[i].Column1, top[i].Column2>> # <<top[j].Column1, top[j].Column2>>)
              /\ (i < j => ~FGt(FAbs(top[j].Correlation), FAbs(top[i].Correlation)))

\* the extension of the path marks a format without a reader
UnsupportedPath == ToLower(Ext(dPath)) \in {ExtParquet, ExtJson}

\* C11: for a path whose extension is .parquet or .json in any case of
\* letters, ProfileDataset returns no error but a profile with RowCount 0,
\* ColumnCount 0, the format label and exactly one dataset issue, of type
\* "unsupported_format" and severity 2.
C11_UnsupportedFormat ==
    (UnsupportedPath /\ dPc # "start") =>
        /\ dPc = "done"
        /\ dErr = ""
        /\ dProfile # NilValue
        /\ dProfile.RowCount = 0
        /\ dProfile.ColumnCount = 0
        /\ dProfile.Format = (IF ToLower(Ext(dPath)) = ExtParquet THEN "Parquet" ELSE "JSON")
        /\ Len(dProfile.QualityIssues) = 1
        /\ dProfile.QualityIssues[1].Type = "unsupported_format"
        /\ dProfile.QualityIssues[1].Severity = 2

\* ProfileDataset returned for a path written ".PARQUET" although no file is there
C11_Witness ==
    /\ dPc = "done"
    /\ Ext(dPath) = <<".", "P", "A", "R", "Q", "U", "E", "T">>
    /\ dFile = "absent"
    /\ dProfile # NilValue
    /\ dProfile.Format = "Parquet"

\* the file cannot be opened or has no header row
NoHeaderRow == dFile \in {"absent", "unopenable", "empty"}

\* C12 as stated: whenever the file is absent, cannot be opened or has no
\* header row to read, ProfileDataset returns an error and no profile.
C12_ErrorWithoutProfile ==
    (NoHeaderRow /\ dPc \notin {"start", "csv"}) =>
        (dPc = "error" /\ dErr # "" /\ dProfile = NilValue)

\* C12 for the paths handed to ProfileCSV (extension other than .parquet and
\* .json): when the file is absent, cannot be opened or has no header row,
\* ProfileDataset returns an error and no profile.
C12_ErrorWithoutProfileCSV ==
    (NoHeaderRow /\ ~UnsupportedPath /\ dPc \notin {"start", "csv"}) =>
        (dPc = "error" /\ dErr # "" /\ dProfile = NilValue)

\* ProfileDataset returned the header error for an empty file under a path
\* without extension
C12_Witness ==
    /\ dPc = "error"
    /\ dFile = "empty"
    /\ Ext(dPath) = <<>>
    /\ dErr = "failed to read CSV header"
    /\ dProfile = NilValue

(***************************************************************************)
(* Claims about the histogram of calculateNumericStats (under SpecStats)   *)
(***************************************************************************)
\* the numbers among the values handed to calculateNumericStats
ParsedValues == NumValues(nValues)

\* at least one value parses and all the parsed values are equal
ConstantValues ==
    /\ Len(ParsedValues) >= 1
    /\ SeqMin(ParsedValues) = SeqMax(ParsedValues)

\* C22: when all the numeric values of a column are equal,
\* calculateNumericStats returns, bucket 0 holds the number of values and the
\* buckets 1..9 hold 0.
C22_ConstantColumn ==
    (nPc # "start" /\ ConstantValues) =>
        /\ nPc = "done"
        /\ Len(nCol.HistogramBuckets) = bucketCount
        /\ nCol.HistogramBuckets[1].Count = Len(ParsedValues)
        /\ \A b \in 2..bucketCount : nCol.HistogramBuckets[b].Count = 0

\* the bucket the claim gives the value v: min(9, floor((v - min) / w)) with
\* w = (max - min) / 10, in exact arithmetic; bucket 0 when the width is zero
ClaimedBucket(v, min, max) ==
    IF max = min THEN 0
    ELSE LET i == (bucketCount * (v - min)) \div (max - min)
         IN  IF i >= bucketCount THEN bucketCount - 1 ELSE i

\* the histogram as C21 describes it, for parsed values nums with their min
\* and max: ten contiguous buckets from min to max, bucket i from
\* min + i*w, and each value counted in its claimed bucket, where it lies
HistogramAsClaimed(buckets, nums, min, max) ==
    /\ Len(buckets) = bucketCount
    /\ buckets[1].LowerBound = FFromInt(min)
    /\ buckets[bucketCount].UpperBound = FFromInt(max)
    /\ \A b \in 1..bucketCount :
          buckets[b].LowerBound = FAddInt(min, FMulInt(FDivInt(max - min, bucketCount), b - 1))
    /\ \A b \in 1..(bucketCount - 1) : buckets[b].UpperBound = buckets[b + 1].LowerBound
    /\ \A b \in 1..bucketCount :
          buckets[b].Count =
              Cardinality({i \in 1..Len(nums) : ClaimedBucket(nums[i], min, max) = b - 1})
    /\ \A i \in 1..Len(nums) :
          LET b == ClaimedBucket(nums[i], min, max) + 1
          IN  /\ FIntGe(nums[i], buckets[b].LowerBound)
              /\ IF b = bucketCount THEN FIntGe(max, FFromInt(nums[i]))
                 ELSE FGtInt(buckets[b].UpperBound, nums[i])

\* C21: once calculateNumericStats has run on values of which at least one
\* parses, the column has exactly 10 contiguous buckets from min to max of
\* width (max - min)/10, and every value v is counted in bucket
\* min(9, floor((v - min)/w)).
C21_HistogramShape ==
    (nPc # "start" /\ Len(ParsedValues) >= 1) =>
        /\ nPc = "done"
        /\ HistogramAsClaimed(nCol.HistogramBuckets, ParsedValues,
                              SeqMin(ParsedValues), SeqMax(ParsedValues))

(***************************************************************************)
(* Claims about series of different lengths (under SpecCorrelation)        *)
(***************************************************************************)
\* the series CalculateCorrelationMatrix rebuilds for a listed column
SeriesOf(name) == reconstructNumericValues(mProfile.Columns[name])

\* the listed pairs whose rebuilt series differ in length
UnequalPairs ==
    {p \in ListedColumns \X ListedColumns : Len(SeriesOf(p[1])) # Len(SeriesOf(p[2]))}

\* C23: calculatePearsonCorrelation returns 0 for two series of different
\* lengths and for empty series; in a matrix, two columns whose rebuilt
\* series differ in length have correlation 0 and are no top pair.
C23_UnequalLengths ==
    /\ (rPc = "done" /\ (Len(rX) # Len(rY) \/ Len(rX) = 0)) => rCorr = ExZero
    /\ (mPc = "done" /\ ~IsNil(mMatrix)) =>
          \A p \in UnequalPairs :
             /\ mMatrix.Values[p[1]][p[2]] = ExZero
             /\ \A i \in 1..Len(mMatrix.TopPairs) :
                   <<mMatrix.TopPairs[i].Column1, mMatrix.TopPairs[i].Column2>> # p

\* a matrix with a pair of columns of unequal series beside a top pair
C23_Witness ==
    /\ mPc = "done"
    /\ ~IsNil(mMatrix)
    /\ UnequalPairs # {}
    /\ mMatrix.TopPairs # <<>>

(***************************************************************************)
(* Claims about the order of the top pairs (under SpecMatrix)              *)
(***************************************************************************)
\* the pair p is appended to allPairs before the pair q
GeneratedBefore(p, q) ==
    \/ StringLess(p.Column1, q.Column1)
    \/ (p.Column1 = q.Column1 /\ StringLess(p.Column2, q.Column2))

\* C24: two top pairs of equal |Correlation| stand in the order in which
\* they were generated, ascending by Column1 and then by Column2.
C24_StableRanking ==
    (mPc = "done" /\ ~IsNil(mMatrix)) =>
        \A i, j \in 1..Len(mMatrix.TopPairs) :
            (i < j /\ FEq(FAbs(mMatrix.TopPairs[i].Correlation),
                          FAbs(mMatrix.TopPairs[j].Correlation)))
                => GeneratedBefore(mMatrix.TopPairs[i], mMatrix.TopPairs[j])

(***************************************************************************)
(* Claims about detectQualityIssues (under SpecDetect)                     *)
(***************************************************************************)
IssuesOfType(issues, type) == SelectSeq(issues, LAMBDA issue : issue.Type = type)

\* the severity the thresholds of 5% and 20% give, in exact arithmetic
ClaimedMissingSeverity(missing, rowCount) ==
    IF missing * 100 > 20 * rowCount THEN 3
    ELSE IF missing * 100 > 5 * rowCount THEN 2 ELSE 1

\* C25: detectQualityIssues emits "missing_values" exactly when MissingCount > 0,
\* with severity 3 above 20% of the rows, else 2 above 5%, else 1 (exactly 5%
\* gives 1, exactly 20% gives 2); 50 missing of 100 rows with no other trigger
\* leave exactly one issue, missing_values of severity 3.
C25_MissingValues ==
    qPc = "done" =>
        LET found == IssuesOfType(qCol.QualityIssues, "missing_values")
        IN  /\ Len(found) = IF qCol.MissingCount > 0 THEN 1 ELSE 0
            /\ qCol.MissingCount > 0 =>
                  found[1].Severity = ClaimedMissingSeverity(qCol.MissingCount, qRowCount)
            /\ ( /\ qRowCount = TestRowCount
                 /\ qCol.MissingCount * 2 = TestRowCount
                 /\ ~ (qCol.UniqueCount = qCol.Count /\ Contains(ToLower(qCol.Name), ID))
                 /\ ~ qCol.IsCategorical
                 /\ IssuesOfType(qCol.QualityIssues, "outliers") = <<>> )
               => qCol.QualityIssues = << Issue("missing_values", 3) >>

\* the column of TestDetectQualityIssues after the call
C25_Witness ==
    /\ qPc = "done"
    /\ qRowCount = TestRowCount
    /\ qCol = FixtureColumn(TestCol, TestRowCount \div 2, << Issue("missing_values", 3) >>)

(***************************************************************************)
(* Claims about the issue lists (under SpecIssues)                         *)
(***************************************************************************)
\* every severity is 1, 2 or 3 and no tag occurs twice
WellFormedIssues(issues) ==
    /\ \A i \in 1..Len(issues) : issues[i].Severity \in {1, 2, 3}
    /\ \A i, j \in 1..Len(issues) : issues[i].Type = issues[j].Type => i = j

ColumnTags == {"outliers", "missing_values", "likely_id", "imbalanced"}

DatasetTags == {"high_missing_values", "duplicate_rows", "unsupported_format"}

\* C26: in every profile ProfileDataset returns, every issue has a severity in
\* {1, 2, 3}, and no column and no dataset carries two issues with the same tag
\* (the column tags and the dataset tags each at most once), although the score
\* is computed twice; the same for every column detectQualityIssues has been
\* handed with at most one outliers issue on it.
C26_IssuesOnce ==
    /\ (dPc = "done" /\ dProfile # NilValue) =>
          /\ WellFormedIssues(dProfile.QualityIssues)
          /\ \A i \in 1..Len(dProfile.QualityIssues) :
                dProfile.QualityIssues[i].Type \in DatasetTags
          /\ \A name \in DOMAIN dProfile.Columns :
                /\ WellFormedIssues(dProfile.Columns[name].QualityIssues)
                /\ \A i \in 1..Len(dProfile.Columns[name].QualityIssues) :
                      dProfile.Columns[name].QualityIssues[i].Type \in ColumnTags
    /\ qPc = "done" =>
          /\ WellFormedIssues(qCol.QualityIssues)
          /\ \A i \in 1..Len(qCol.QualityIssues) : qCol.QualityIssues[i].Type \in ColumnTags

\* a returned profile with two dataset issues and a column with two issues
C26_Witness ==
    /\ dPc = "done"
    /\ dProfile # NilValue
    /\ Len(dProfile.QualityIssues) = 2
    /\ \E name \in DOMAIN dProfile.Columns : Len(dProfile.Columns[name].QualityIssues) = 2

(***************************************************************************)
(* Claims about the file handle of ProfileCSV (under Spec)                 *)
(***************************************************************************)
\* ProfileCSV has returned or panicked
Returned == pPc \in {"done", "error", "panic"}

\* the handle while the call runs and after it
HandleState ==
    /\ pOpens <= 1
    /\ pHandle = "unopened" <=> pOpens = 0
    /\ pPc = "scan" => pHandle = "open"
    /\ Returned => pHandle # "open"
    /\ (Returned /\ pErr # "failed to open file") => pHandle = "closed"

\* a closed handle stays closed and nothing more is read
ClosedForGood ==
    pHandle = "closed" =>
        /\ pHandle' = "closed"
        /\ pOpens' = pOpens
        /\ pHeader' = pHeader
        /\ pRecords' = pRecords

\* C27: the file handle is opened at most once per ProfileCSV call and, once
\* opened, it is closed on every exit path (stat failure, header-read failure,
\* a row-read error at any row, normal completion); no path returns with the
\* handle open, and it is never closed before the last read.
C27_HandleClosed == []HandleState /\ [][ClosedForGood]_vars

\* a row-read error after a row was read, the handle closed
C27_Witness ==
    /\ pPc = "error"
    /\ pErr = "error reading CSV"
    /\ pRowCount > 0
    /\ pHandle = "closed"
    /\ pOpens = 1

(***************************************************************************)
(* Claims about the counters of the scan (under Spec)                      *)
(***************************************************************************)
DistinctNames(hdr) == \A i, j \in 1..Len(hdr) : hdr[i] = hdr[j] => i = j

\* the counters of the returned profile, and of the scan while it runs
CountersAddUp ==
    /\ (pPc = "scan" /\ DistinctNames(pHeader)) =>
          /\ \A name \in DOMAIN pColumnValues :
                Len(pColumnValues[name]) + pProfile.Columns[name].MissingCount = pRowCount
          /\ pMissingCells <= pRowCount * Len(pHeader)
    /\ (pPc = "done" /\ DistinctNames(pHeader)) =>
          /\ \A name \in DOMAIN pReturn.Columns :
                pReturn.Columns[name].Count + pReturn.Columns[name].MissingCount
                    = pReturn.RowCount
          /\ pReturn.MissingCells <= pReturn.RowCount * pReturn.ColumnCount

\* no step of the scan lowers a counter
CountersGrow ==
    pPc = "scan" =>
        /\ pRowCount' >= pRowCount
        /\ pMissingCells' >= pMissingCells
        /\ \A name \in DOMAIN pColumnValues :
              /\ Len(pColumnValues'[name]) >= Len(pColumnValues[name])
              /\ pProfile'.Columns[name].MissingCount >= pProfile.Columns[name].MissingCount

\* C29: for every profile ProfileCSV produces from a header with distinct
\* column names, every column has Count + MissingCount = RowCount, and
\* MissingCells <= RowCount * ColumnCount; during the scan the counters only
\* ever increase.
C29_CountersAddUp == []CountersAddUp /\ [][CountersGrow]_vars

\* a profile of two rows and two columns, one column with a value and a
\* missing cell
C29_Witness ==
    /\ pPc = "done"
    /\ DistinctNames(pHeader)
    /\ pReturn.RowCount = 2
    /\ pReturn.ColumnCount = 2
    /\ \E name \in DOMAIN pReturn.Columns :
          pReturn.Columns[name].Count = 1 /\ pReturn.Columns[name].MissingCount = 1

(***************************************************************************)
(* Claims about reconstructNumericValues (under SpecRecon)                 *)
(***************************************************************************)
RECURSIVE BucketCountSum(_, _)
\* the sum of the Count of the buckets from bucket i on
BucketCountSum(buckets, i) ==
    IF i > Len(buckets) THEN 0 ELSE buckets[i].Count + BucketCountSum(buckets, i + 1)

\* the top values that parse as numbers, in order
NumericTopValues(col) == SelectSeq(col.TopValues, LAMBDA tv : ParsesAsFloat(tv.Value))

RECURSIVE TopCountSum(_, _)
TopCountSum(tops, i) ==
    IF i > Len(tops) THEN 0 ELSE tops[i].Count + TopCountSum(tops, i + 1)

\* the bucket the k-th rebuilt value comes from, k within the bucket counts
BucketAt(buckets, k) ==
    CHOOSE b \in 1..Len(buckets) :
        /\ BucketCountSum(buckets, 1) - BucketCountSum(buckets, b) < k
        /\ k <= BucketCountSum(buckets, 1) - BucketCountSum(buckets, b + 1)

\* the numeric top value the k-th value after the midpoints comes from
TopAt(tops, k) ==
    CHOOSE t \in 1..Len(tops) :
        /\ TopCountSum(tops, 1) - TopCountSum(tops, t) < k
        /\ k <= TopCountSum(tops, 1) - TopCountSum(tops, t + 1)

\* C28: reconstructNumericValues returns the bucket midpoints, each repeated
\* bucket.Count times in bucket order, followed by each top value that parses
\* as a number repeated its count; its length is the sum of the bucket counts
\* plus the sum of the counts of the numeric top values, strictly greater than
\* the column's numeric value count whenever the column has a numeric top
\* value; it is empty when the column is not numeric or has no histogram.
C28_Reconstructed ==
    vPc = "done" =>
        LET buckets == vCol.HistogramBuckets
            tops    == NumericTopValues(vCol)
            inBuckets == BucketCountSum(buckets, 1)
        IN  IF ~vCol.IsNumeric \/ Len(buckets) = 0 THEN vRebuilt = <<>>
            ELSE /\ Len(vRebuilt) = inBuckets + TopCountSum(tops, 1)
                 /\ \A k \in 1..inBuckets :
                       vRebuilt[k] = FHalf(FAdd(FSigned(buckets[BucketAt(buckets, k)].LowerBound),
                                                FSigned(buckets[BucketAt(buckets, k)].UpperBound)))
                 /\ \A k \in 1..TopCountSum(tops, 1) :
                       vRebuilt[inBuckets + k] = ParseFloat(tops[TopAt(tops, k)].Value)
                 /\ tops # <<>> => Len(vRebuilt) > Len(SelectSeq(vSource, ParsesAsFloat))

\* a numeric column of three values, two of them alike, rebuilt as six values
C28_Witness ==
    /\ vPc = "done"
    /\ vCol.IsNumeric
    /\ Len(vSource) = 3
    /\ vCol.UniqueCount = 2
    /\ Len(vRebuilt) = 6

(***************************************************************************)
(* Claims about the score of the returned profile (under SpecDataset)      *)
(***************************************************************************)
\* what the score is computed from, and the issue lists of the columns
Scored(profile) ==
    [RowCount |-> profile.RowCount, ColumnCount |-> profile.ColumnCount,
     MissingCells |-> profile.MissingCells, DuplicateRows |-> profile.DuplicateRows,
     QualityIssues |-> profile.QualityIssues,
     Columns |-> [name \in DOMAIN profile.Columns |-> profile.Columns[name].QualityIssues]]

\* C30: the QualityScore of the profile ProfileDataset returns equals
\* CalculateQualityScore of that returned profile: the column and dataset
\* issues are appended before the score is taken, and the correlation matrix,
\* the recommendations and the processing time change no issue list, row
\* count, column count, missing-cell count or duplicate count.
C30_ScoreOfReturned ==
    (dPc = "done" /\ dProfile # NilValue) =>
        /\ dProfile.QualityScore = CalculateQualityScore(dProfile)
        /\ pPc = "done" =>
              /\ Scored(dProfile) = Scored(pReturn)
              /\ dProfile.QualityScore = pReturn.QualityScore
        /\ pPc = "idle" => Scored(dProfile) = Scored(UnsupportedProfile(dPath, ToLower(Ext(dPath))))

\* a returned profile with rows, issues, a correlation matrix and a score
\* below 100
C30_Witness ==
    /\ dPc = "done"
    /\ dProfile # NilValue
    /\ dProfile.RowCount = 2
    /\ dProfile.QualityIssues # <<>>
    /\ dProfile.CorrelationMatrix # NilValue
    /\ dProfile.QualityScore \in 1..99

====
